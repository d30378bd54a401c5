# libmasc in TLA+

This directory specifies parts of libmasc, a C library of dynamic objects with
a main loop, in TLA+.  TLC checks the specifications on small instances, and
TLAPS proves the safety invariants for every value of the constants.

## 1. The system

libmasc is a single-threaded library. What makes it concurrent is its main
loop: callbacks of the application run inside it and change the very lists it
walks; signal handlers run between any two of its instructions; the kernel
ends children, delivers data and lets time pass while it works.

| Part | State | Operations | Works with |
|---|---|---|---|
| Main loop (`src/mloop.c`) | static flags `initialised`, `running`, `got_sigchld`, `pending_event`; four lists; the epoll file | `mloop_init`, `_run`, `_stop`, `_destroy` | everything below, signals, epoll |
| Timers (`mloop.c`, `mloop/timer.c`) | `timers`, `pending`, `time`, `msec` | `mloop_timer_new`, `_in`, `_add`, `_cancle`, `ml_timer_*`, `_handle_timers` | List, clock, callbacks |
| Events (`mloop.c`, `mloop/event.c`) | `events`, `fired`, `pending_event` | `mloop_event_new`, `_add`, `_remove`, `_fire`, `_handle_events` | List and its iterator, signal handlers |
| Processes (`mloop.c`, `mloop/proc.c`) | `procs`, `pid`, `running`, `got_sigchld` | `mloop_proc_new`, `_rerun`, `_cancle`, `_delete`, `_handle_processes` | fork, kill, waitpid, SIGCHLD |
| Files (`mloop.c`, `mloop/io.c`, `ioreader.c`) | `mlios`, the epoll set, what epoll_wait reported | `mloop_io_new`, `_reader_new`, `_cancle`, `_delete`, `_handle_epoll`, `_reader_data_cb` | epoll, files, callbacks |
| Packet reader (`mloop/iopkg.c`) | the buffered beginning of a packet | `_pkg_data_cb` | reader, callback |
| TcpServer (`tcpserver.c`) | socket, list of clients, error | start, `_server_cb`, `_eof_cb`, `tcpserver_cli_close`, destroy | Files, List |
| TcpClient (`tcpclient.c`) | socket, `conn_evt`, `time_evt`, error | start, stop, `_conn_evt`, `_timeout_cb`, `_eof_cb`, destroy | Files, Timers |
| List, Array, Map (`list.c`, `array.c`, `map.c`) | chain of nodes, block of objects, chain of keys and values | index, insert, remove, sort, iterate | objects, Iter |
| Iter and filter (`iter.c`, `iterable_class.c`) | a container and its own place in it | `next`, `iter_del_obj`, `filter` | List, Array, Map |
| Str, cstr, Regex | characters and a length | slice, insert, find, escape | |
| Json (`json_parse.c`, `json.c`) | stack of open containers; the tree of nodes | parse; get, set, remove, delete a node by its key; pretty print | Map, List, Str |
| Argparse | options, positional arguments, errors | parse | Str, List |
| Log (`log.c`) | list of facilities, level, the Str of the message | `log_init`, `log_add_*`, `log_msg`, `log_destroy` | List, File, print, callbacks, memory |
| Print (`print.c`) | two walks over the arguments of a format | `vformat`, pretty print | Str, objects |
| File, Io, Serial, Socket, Path, Ip, DateTime | descriptor, buffer, value | read, readline, convert | system calls, libc |
| Objects and classes | class table, super chain | new, init, delete, copy, cmp | all |
| Memory tracer (`memtracer`) | table of blocks, their number, `tracing` | `mtrace_init`, `_reset`, `_destroy`, the wrapped malloc, calloc, realloc, strdup, strndup, free | whatever allocates |

The hard behaviours, and the properties that make each part correct:

- **timers**: a callback arms, cancels or deletes any timer, itself included,
  while the list is walked. The list must agree with the objects, be in order,
  and a timer that arms itself must not starve the rest of the loop;
- **events**: fired from signal handlers at any point. No fire may be lost, and
  the iterator must not hold a node that is gone;
- **processes**: SIGCHLDs coincide, children end while others are reaped. Every
  child must be reaped, and its end reported once and to its own object;
- **files**: one call of epoll_wait reports several objects, and the callback of
  one may change the others. Data come before the end of a file;
- **connections**: the answer, the timeout, the hang-up and the application's close or
  destroy come in any order and for several connections at once. The list of clients,
  the pointers to the connect event and its timer, and what the loop watches must
  agree, a client that hung up must be closed, and who waits for a connection be answered;
- **packets**: bytes arrive in any portions. Each packet must be handed over once,
  unchanged and without waiting for more, and the rest be kept;
- **containers**: indexes from the end and outside of the container, deletion
  through an iterator. Each operation must hit the element its index means, and
  no node be lost;
- **JSON**: brackets, labels and values change one stack in any order. A text that
  can still become a value must not be refused, and each value must come to its own
  list or label;
- **JSON nodes**: a key is cut into tokens, and what a token means depends on the node it
  is looked up in. It must lead to the node it is written for, an object that is put into
  the tree or taken out of it must have one owner and be deleted once, and what is printed
  of a tree must be read back;
- **formats**: `vformat` hands pieces of a format to `vsnprintf` and counts the arguments
  those take a second time by itself. The two counts must agree at every object;
- **memory tracer**: addresses are freed and used again, blocks move, the table is reset and
  gets full. Table and counter must agree with the blocks that are in use;
- **logger**: callbacks log, allocate and add facilities while the list is walked, files
  cannot be opened, the program runs out of memory. Every facility must get each message, and the logger
  must let go of all it took;
- **texts**: a Str is moved inside of its own block, and written into buffers that may
  be too short. It must hold the text that the operations give, nothing may be written
  beside it, and what is escaped must be read back;
- **paths and addresses**: `..` depends on all that was before it, a prefix ends inside
  of a byte. A normal path must lead where the path did, a network hold the right bits;
- **command lines**: options take their words out of one list, in the order in which
  they were added. None may take another's words, and no word may be lost;
- **the loop**: it must not sleep when there is something to do, and must return
  when it is stopped, even by a signal just before epoll_wait.

`PROJECT.json` lists these hazards one by one, at the lines where they bite,
with the properties that watch them.

## 2. The modules

| Module | Stands for | Remarks |
|---|---|---|
| `MascList` | `list_remove`, `list_sort_in`, iterator steps of `src/list.c` | operators on sequences |
| `MLoopCore` | the static flags, the place of `mloop_run`, the running callback, the clock | extended by the four parts |
| `MLoopTimers` | the timers | |
| `MLoopEvents` | the events | |
| `MLoopProcs` | the processes, children and SIGCHLD | |
| `MLoopIo` | the files, readers and epoll | |
| `MLoop` | `mloop_init/_run/_stop/_destroy`, the timeout; composes the four parts | `Spec`, `FairSpec`, the properties that relate parts |
| `TcpServer` | `src/tcpserver.c` on the main loop | extends `MLoop` |
| `TcpClient` | `src/tcpclient.c` on the main loop | extends `MLoop` |
| `Tcp` | the two on one loop, the network and their application | `TcpSpec`, `TcpFairSpec` |
| `TimerService` | what the timers promise: no list, no loop | abstract specification |
| `IoPkg` | the packet reader, byte by byte | `Spec`, `FairSpec` |
| `PkgStream` | bytes that arrive and packets that are cut off | abstract specification |
| `MCIoPkg` | `IoPkg` with every portion of up to four bytes | |
| `ListNodes` | `src/list.c` on its nodes and pointers | operators |
| `MapNodes` | `src/map.c` on the same chains | operators |
| `Iterables` | the life of one List, Map or Array, and an Iter on it | state machine over the operators |
| `MCIterables` | `Iterables` with three objects, two of them equal for `cmp` | |
| `JsonText` | the grammar of JSON, token by token, and the value of a text | the reference for `JsonParse` |
| `JsonParse` | `json_parse_to_obj` of `src/json_parse.c` | |
| `JsonNodes` | `src/json.c` on what was parsed: keys, nodes, owners; pretty print of `src/print.c` | extends `JsonParse` |
| `MCJson` | `JsonNodes` with labels of each kind of character a key tells apart, one with a quote, and a double that has more digits than are printed; two objects may be swapped | |
| `FormatText` | `vformat` of `src/print.c` | operators |
| `MemTracer` | `src/memtracer/mtrace.c`: the table, the wrapped calls | operators on a record of the memory |
| `Log` | `src/log.c`, and the program that logs and allocates | state machine, extends `MemTracer` |
| `MCLog` | `Log` with an allocator that gives a freed address out again | |
| `CstrText` | `src/cstr.c`: buffers, escapes, splitting; `str_join`, `str_replace` | operators on sequences of bytes |
| `StrBlock` | `src/str.c`: a Str on its block of memory, byte by byte | operators |
| `PathIp` | `path_normpath`, `path_join`; the prefix of an `Ip`; `readline` | operators |
| `Values` | the life of one Str, path or Ip | state machine over the operators, with references; formats |
| `MCValues` | `Values` with each kind of byte that the escapes tell apart | |
| `Argparse` | `argparse_parse` of `src/argparse.c` | |
| `MCArgparse` | `Argparse` for a program with four options and two or three arguments | |
| `MascListLemmas` | facts about `MascList`, proved | |
| `MLoop_proofs` | type correctness of the main loop; the list of timers, and the timers implement `TimerService`; events, processes and files; the end of a file comes last; the loop sleeps only when idle | |
| `Tcp_proofs` | server and client use the loop as its `Spec` allows; the server's list and the client's pointers | |
| `IoPkg_proofs` | the packet reader's buffer and its refinement | |
| `JsonParse_proofs` | the parser accepts what the grammar does | |
| `Iterables_proofs` | the chains of List and Map, what their operations do, and an Iter on them | |
| `MemTracer_proofs` | the tracer's table and the logger's blocks, for any program that uses the two | |
| `Values_proofs` | a Str holds its text, which arguments directives show, short buffers, what is read back, where paths lead | |

### How the model corresponds to the code

`pc` says where `mloop_run` is (`Labels` in `MLoopCore`), `callback` which
object's callback it has called. The application acts (`UserCode`) before and
after `mloop_run` and in a callback; there it may do any number of operations
on any object, in any order, until the callback returns (`Return`). So an
action is either one round of a loop in a handler (`ExpireTimer`,
`HandleEvent`, `Reap`, `HandleIo`), up to the call of the callback, or a whole
function of `masc/mloop.h`. Signals, the clock, children and files may take a
step between any two of these. `_calculate_timeout` and the entry into
`epoll_wait` are separate steps (`Poll`, `EpollEnter`), because a signal between
the two does not interrupt the wait.

A List is the sequence of its objects; `list_remove` compares pointers, so a
sequence of object names is enough. The iterator of `_handle_events` is the
object of the node it comes to next (`itNext`).

Objects: `timerAlive`, `eventAlive`, ... say which objects exist. A deleted
object can be made again, as memory is. `NullCb` holds the objects made with a
NULL callback: the loop deletes such a timer or process when it is done with it.

`TcpServer` and `TcpClient` cut the functions of the two files into steps at each
operation of the loop and each callback of the application, since a signal or the
network can act there: a step is one operation of `MLoop`, or none, with what the code
assigns. `clientAt` says where the client's code is; a connection that is
`"accepting"` is the one `accept_cb` is asked about. A client of the server is one name for
its `TcpServerCli`, its `Socket` and its reader. `ConnEvt` and `ClientIo` are the two objects
that watch the client's one socket, one after the other. `conn` is the server's view of a
connection, `sock` the client's; `OurConn` is the connection both see, so its data and ends
follow from each other (`PeerGone`, `PeerThere`), while the other peers may send and close
whenever they like. A non-blocking connect over TCP never succeeds at once, so
the branch of `tcpclient_start` for it is left out, and `accept` fails only when nobody waits.

`IoPkg` has one action per step of `_pkg_data_cb` (`Search` and `Packet` for one byte
of the search, `Move` for one byte of the copy), because the property is about what
the buffer holds in between; the packet callback returns by an action of its own
(`PkgCbReturns`). The refinement to `PkgStream` maps the bytes that arrived and the
number of them that were cut off; that these bytes are still where the code looks
for them is what has to be shown.

`ListNodes` keeps the pointers: a chain is a head, a `next` for each node and what
each node holds. `Chain` follows the pointers, `Allocated` knows the nodes by what
they hold, and a lost node is one that is allocated and not in the chain. A Map uses
the same nodes with records of a key and a value. `Iterables` applies one operation
per action, with all indexes from `-MaxIdx` to `MaxIdx`, and the iterator is the
code's: the next node and an index. `kept` is a history of what `next()` came to.

`JsonParse` has one action per kind of token, each a branch of the loop in
`json_parse_to_obj`, with the expectation, the stack and the error of the code. The text
is chosen token by token, so every text up to the bound is parsed; it may end after any
token (`Return`). A token is a bracket, a colon, a comma, a text in quotes, another
value, or `Bad`: a character no token begins with, or a quote that is not closed. A
Map is a function of its labels, which is what `map_set` makes of them
(`Iterables` looks into that). `grammar` is a history: what `JsonText`, which knows
nothing of the parser, says of the tokens so far.

`JsonNodes` works on the tree that a text gave. A key is a sequence of characters, because
`_key_to_tokens` goes by brackets, dots and quotes, and a token keeps the `]` it ends with,
as in the code; `Meaning` says what a token is on a node, in the order in which
`_get_node`, `json_set_node` and `json_remove_node` ask. `KeyOf` writes a key for a path of
labels and indexes, in each way it can be written, and `NodesAgree` compares what the code
does with the key to what should happen at the path. An object of the program is a mark in
the tree (`Objs`); `deletes` counts how often `delete` came to it. Pretty print (`Pretty`) and
`json_to_cstr` (`ToCstr`) give tokens, so that what is printed can be given to the grammar
again. A label is printed as it is: `RawOf` says which token that is, `Bad` if a quote in it ends
it too early. Any other value is printed by its `repr`: `ReprOf`, which is another value for a
double that has more digits than `%g` prints. Only the root is asked for its own `to_cstr`, so a
Str has no quotes then and None is `None` (`HasOwnCstr`).

`FormatText` has a format as a sequence of directives, each with its type and its length, and
maybe with a width and a precision that are arguments of their own, without its flags. `Vformat` cuts it
at every `%O`; the pieces take their arguments from `ap_p` (`Needs`), and `Takes` is what the switch
of the code thinks they took: less for `%li` and for `%.*s`.

`MemTracer` is one record, `mem`: the variables of `mtrace.c` and the blocks that are in use.
Each wrapped call is an operator from `mem` to `mem`, so a function of the logger that
makes several of them is their composition in its order. An allocation of the program may give
NULL (`Result`); those of the logger have memory, as `log.c` does not look at what it is given
(contract). Opening a file may fail. `asked` is a history of the sizes. `Log` walks the list of facilities in steps (`Deliver`), because the
callback of a facility is the program again; the text of a message is only what was put
in front of it and behind it. The program has a few blocks of its own (`own`), turns the
tracer on and off and resets it, at any time outside of the calls.

`StrBlock` has the block of a Str as a function from places to bytes; what `realloc`
adds is `"junk"` until it is written, and a byte that is written behind the block makes
the function larger than `size`, so `TextKept` sees both. Each loop of `str.c` is a
`Loop` over its rounds, in its direction, with a name (`MovedDown`, `MovedUp`, `Swapped`, `Ended`,
`Filled`, `Spread`). `text`, a history, is the text the operations
should give, by operators on sequences. `CstrText` writes into a buffer with a size
(`Emit`), as `cstr_putc`, `cstr_ncopy` and `snprintf` do, and never looks at what is behind
it. A byte is a character, or stands for a class: `CTL` is a control character that is
written as `\x01`, `LEAD` and `CONT` are the two bytes of a UTF-8 sequence. The `\u` branch
of `cstr_unrepr` is left out, as nothing writes it.

A path is the sequence of its parts between slashes, so `<<"", "a">>` is `/a`; an Ip is its
bytes and prefix, with as many bits in a byte (`ByteBits`) and as many bytes as the
constants say: where the prefix ends inside of a byte matters, the number of bytes does
not.

`Argparse` goes through `argparse_parse` option by option and argument by argument. A word
has a number of dashes in front (`Dashes`), names and flags that it ends with (`Ends`), and the one
that is all that stands behind its dashes (`Behind`). `Matches` is the test of the code, which
looks at the beginning and the end of a word only, so that `--all` is taken for `-l`. `Reading` is
the reference: the command line read from left to right, by what stands behind the dashes
(`Names`).

History variables of the loop: `armOrder` keeps the order in which the armed timers were
armed, and `rearmed` the timers armed by `mloop_timer_in` or `mloop_timer_new`
in the running pass. No action reads them in a guard.

Outside of the code: `Killed`, `ChildExit`, `FileChange`, `Condition`, `Ready`
say what kill, a child, a file and epoll do. The end of a socket's data is
EPOLLIN with EPOLLRDHUP, the end of a pipe's data is EPOLLHUP.

### What the application must not do

The code takes these on trust, so the guards have them as preconditions:

- call a function of a part before `mloop_init` (those that test `initialised`
  and do nothing are modelled as doing nothing);
- use an object after it was deleted;
- add an event twice, or remove, in a callback, the event behind the one that is
  being handled: the iterator points at its node;
- delete an object that epoll_wait reported in the same call and the loop has
  not come to, or a reader in its data callback when the end of the file was
  reported with the data;
- call `mloop_run` or `mloop_destroy` inside of a callback;
- close a client in its own `accept_cb` or `cli_hup_cb` (the code goes on to use it), or one
  that epoll_wait reported in the same call;
- start a server or a client before `mloop_init`, start a client a second time, stop it while
  it connects or in `connect_cb`, or let the loop go on after a refused connection that has
  a timeout; destroy either of them while the loop runs;
- use `mloop_timer_add` on a timer that never had a time;
- delete a packet reader in its packet callback;
- let a loop, a server or a logger run out of memory: nowhere is `new` asked whether it got
  some; the program's own allocations may fail;
- give `strndup` a text that has no end at all (it need not be in the first n bytes), or
  `vformat` an object with a precision `.*`, which is not seen as one then;
- change a List or Map otherwise than through the iterator, or by adding, while an
  iterator is on it, or call `iter_del_obj` twice for one element;
- use an index at or beyond the length of an Array;
- put one object into a List twice;
- use an index at or beyond the length of a Str, a negative width, an empty separator, or
  texts that end in a single backslash for `cstr_unescape` and `cstr_unrepr`;
- set a node at a negative index of an empty List of a Json (`Ends`: the code would append
  None without end);
- initialise the logger twice or log when it is off; log, or add a file that cannot be
  opened, inside of a callback of the logger;
- initialise the tracer while it has a table, destroy it without one, or resize a block to 0;
- add an option with nargs `*` or `+`, or positional arguments that are not required, or
  take all that is left, in front of others.

`RerunCancelled` says whether the application reruns a process it has cancelled
before its end was handled. It is `FALSE` in the runs; the remarks in section 4 say what
goes wrong with `TRUE`.

## 3. The runs

| Run | Properties | Bounds |
|---|---|---|
| `MLoopTimers` | `TimerListConsistent`, `TimersSorted`, `RearmedWaits`, `TimersAreAService`, `DueTimerServed` | 3 timers, one without a callback; two periods |
| `MLoopEvents` | `EventListConsistent`, `SleepsOnlyWhenIdle`, `FiredEventHandled`, `StopTerminates` | 2 events, a timer that becomes due |
| `MLoopProcs` | `ProcListConsistent`, `ZombieReaped`, `CancelledProcDone`, `SleepsOnlyWhenIdle` | 2 processes, one without a callback, 3 children |
| `MLoopIo` | `IoListConsistent`, `EofAfterData`, `FilesServed` | a reader of a socket, one of a pipe, and a file the application reads itself; two reported at a time |
| `Tcp` | `ServerConsistent`, `ClientConsistent`, `HangupCloses`, `ConnectAnswered` | a server with two connections, one of them from a client with a timeout |
| `IoPkg` | `BufferIsRest`, `ImplementsStream`, `PacketsHandedOver` | portions of 1 to 4 bytes, 6 in all, two bytes beside the sentinel |
| `Iterables` | `NodesSound`, `OpsAgree`, `IterInPlace` | 4 nodes, 3 objects, 3 keys, an array of 3, indexes -5 to 5 |
| `JsonParse` | `GrammarAccepted`, `NodesAgree`, `OwnedOnce`, `PrintedReadsBack` | texts of up to 9 tokens, two texts in quotes, a double that is printed with fewer digits; trees of texts of up to 4 tokens, 4 operations on them, 2 objects, a label with a quote |
| `Values` | `TextKept`, `ReadsBack`, `WrittenFits`, `PathLeads`, `NetworksAgree`, `FormatTakesArgs` | texts of up to 4 bytes of 9 kinds, paths of up to 5 parts, addresses of 2 and 5 bytes of 3 bits, a buffer of 2 bytes, formats of up to 4 of 8 parts |
| `MemLog` | `BlocksTraced`, `LogSound` | 7 addresses, a table of 3, 2 facilities, 1 block of the program |
| `Argparse` | `ReadAsMeant`, `WordsKept` | command lines of up to 4 of 11 words, 4 options, 2 and 3 arguments |

Bounds, by name: `MaxNow` (the clock stops), `MaxTime` (latest time of a timer),
`MaxPid` (children ever forked), `MaxRuns` (calls of `mloop_run`), `MaxBatch` (16
in the code), `MaxReceived` (bytes that arrive), `MaxIdx`, the set `Nodes` (memory for
list nodes), `MaxTokens` (length of a JSON text), `MaxParsed` (length of those whose tree
is worked on), `MaxOps` (operations on it), `Ptrs` (addresses), `MaxFacs`, `MaxOwn`, `MaxLost` (facilities,
blocks of the program, facilities that were lost),  `MaxLen` (length of a Str, parts of a path),
`MaxWords` (length of a command line). Why they are enough: the lists behave differently for none, one
and several objects, and for the first, a middle and the last of them, which
three objects show; two timers of the same time and one of another need two
periods; the races need one thing to happen while another is handled, so two of
a kind. The parts meet only in the flags, `pc` and `callback`, so a run has the objects of
one part, and `MLoopEvents` those of two: an event is fired by the callback of a timer or of
an event, before the pass over the events or in it, and by a signal at any point, also where the
callback of a file would be. The timer becomes due while events are
pending, before and behind the timeout is calculated. In `Tcp` two connections wait, are accepted, are open and
hang up at once, in any order; `starts` allows one connection of the client, as nothing of it
is left for a second one, and `Silent` names the readers to which no data come but
only their end, as data to one connection show what data do. The signals of the process are
left to the runs of the loop: in `Tcp` it is stopped by its callbacks. `MaxBatch` is 5, so every ready
file is reported, and `HangupCloses` needs no strong fairness. Six bytes hold a packet that comes in three portions, two
packets and a rest in one portion, and a rest that is longer than the packets before
it, so that the move inside of the buffer overlaps.
Nine tokens hold a Map in a List in a Map, or two labels of one Map; the parser
never looks further down than the two topmost objects of its stack. Four tokens are a container
in a container, so a key has two steps; with four operations two objects are made, one is put
in the place of the other and what is left is deleted. A table of three is full when one facility is
there and the program has a block, seven addresses hold two facilities, a message, the
table and what the program has, and none is left for what a callback adds: an
allocation of the program may fail at any time, and has to when no address is left.
Four bytes are a text that is moved by less, as much and more than its length, and hold a
UTF-8 sequence or an escape at either end or cut off; with a buffer of two bytes a line
ends in the first, second or third portion and at its edge. Four words hold an option
with two values and an argument, or two options and an argument or two, in any order. The options
end alike, in both orders: one that is looked for first takes the word of another
(`-l`, `--all`), and one that is looked for later (`--pair`, `-r`) cannot, as that is gone by
then. With two arguments words are left over. The eight parts of a format are counted alike or
differently by the two walks, take one argument or two, and are doubles or not.
The two objects that the program makes are compared with each other only, so swapping them
is a symmetry; it is the only one that is used. `IntHalf` stands for 2^31 and is
chosen above every difference of times in a run: times within 24 days of each other.

A clock that has stopped (`now = MaxNow`) ends every wait with a finite timeout:
without that, a wait beyond the bound would look like a deadlock that the code
does not have. An infinite wait stays infinite. `IoPkg` may stop when the last byte
has arrived, and `json_parse_to_obj` and `argparse_parse` return, and a
program that the tracer has ended does nothing, so the runs of `IoPkg`, `JsonParse`,
`JsonWhole`, `Argparse` and `MemLog` do not look for deadlocks.

**Fairness** (`Fairness` in `MLoop`): the thread runs, so the loop's next step
happens (`WF(LoopStep)`); a callback returns; time passes; a pending SIGCHLD is
delivered; a child that was killed ends. Weak fairness is enough because each of
these stays enabled until it happens. A file that is ready is reported by some call
of `epoll_wait`, which hands out ready files in turns when there are more than it
may report: that is strong fairness, as the loop is only now and then in
`epoll_wait`. Nothing is assumed of the application, of other signals, of children
nobody killed, or of data. `FairSpec` of `IoPkg` says only that the handler goes on and
its callback returns. `TcpFairSpec` has the fairness of the one thread
(`Thread`: the loop, the library's steps in a callback, and the callback's return) and
of time, and none of the network: a connection may
never be answered, which is what the timeout is for.

`FiredEventHandled` has a hypothesis: the callbacks do not for ever add events during
the pass. Without it the property is false, and rightly: the iterator of
`_handle_events` comes to the events that were added too, so a pass in which each
callback adds another event (or removes and adds its own) need not end.

What the runs show: all listed properties hold, that is, the order of the
handlers, the flags and the finite timeout do catch every signal at every
point, callbacks may change the lists within the contract above, packets are cut
off right for every way the bytes can arrive, indexes and iterators of the
containers mean what they should, a text that is JSON is parsed to its value, a Str
holds what its operations say, an unambiguous command line means what it says, a key leads
to its node and no node is lost or freed twice, and the tracer's table is right whatever
program and logger do. How many states there are: about 255,000 for `MLoopTimers`, 136,000 for
`MLoopProcs`, 280,000 for `MLoopIo`, 186,000 for `Tcp`, 113,000 for `JsonParse`, 185,000 for `Argparse`, 665,000 for `MemLog`,
and from 15,000 to 57,000 for the others.

**Mutants.** For every property the modules define a `PLANTED BUG`: a definition
changed as a slip in the code would change it (the cleared flag after instead of
before, the iterator not moved on, no clamp of an index, a copy from the wrong
end, ...). Put in the place of the original it makes TLC find a violation of that
property, so no property holds for lack of behaviour.

## 4. Findings and remarks

Runs that are expected to find a violation, each a place where the repository
says one thing and the code does another:

| Run | What happens |
|---|---|
| `JsonWhole` | a text that ends too early is accepted, and so is a root that is closed with the other bracket |

Remarks, further behaviour of the code that a caller should know:

- `pending_event` is set by `mloop_event_fire` and cleared nowhere: from the first fire on
  `_calculate_timeout` gives 0 and the loop polls without sleeping (`EventsDone` leaves the
  flag as it is);
- `mloop_proc_cancle` clears `running` while the process is still in the list. A rerun
  before its end is handled appends it a second time and overwrites its pid; one of the
  two ends is dropped, and the process stays in the list after it was reported as done;
- the end of a pipe is EPOLLHUP alone, for which `_handle_epoll` calls nobody: `eof_cb` is
  not called and the loop spins. The end of data in `FilesServed` is therefore about sockets;
- words that no argument takes are looked at only behind the exit for errors
  (`src/argparse.c:337`): the error "too many arguments" is made, never shown, and the
  words are ignored;
- a refused connection leaves the client's timer armed; if the loop goes on,
  `_timeout_cb` deletes a `conn_evt` that is NULL and calls `connect_cb` again;
- `tcpclient_stop` deletes `conn_evt` and `time_evt` and leaves the pointers, so stopping a client
  that connects, and destroying it, deletes them twice. After a connection was made,
  `connect_cb` must not stop the client either: `_conn_evt` registers its socket;
- a second `tcpclient_start` replaces `sock` without closing it. If `connect` succeeded at
  once, `tcpclient_start` would call `connect_cb` with an `errno` of something earlier;
- a server or client whose loop is destroyed and initialised again is watched no more:
  `mloop_destroy` deletes its objects, and the server cannot be started a second time.
  `ServerConsistent` therefore runs with `MaxRuns = 1`;
- `example/reversed.c:23` closes a client in its `cli_pkg_cb`, which deletes the packet
  reader that `_pkg_data_cb` goes on with;
- a callback that closes another client which epoll_wait has reported too leaves the
  loop with a freed object, as every `mloop_io_delete` does then;
- the option of a word is found by the end of the word: `--log-level` is taken for an
  option `level`, and any word with a dash in front that ends in its letter for the flag, so an
  option `l` that was added before `all` takes `--all`, and a value behind it. `ReadAsMeant` is about lines on
  which no option added earlier ends like the word of another, `WordsKept` about all; an option
  with nargs `*` or `+` is taken out and gets no entry in the result, and one with `?` is
  shown as if its value could be left out, but demands it;
- `cstr_escape` leaves a backslash as it is, so `str_unescape` gives another text back for
  texts that have one (`EscapesReadBack` says so);
- the prefix of an Ip is stored in a byte before it is compared with its limit, so `/264`
  becomes `/8`; with a second slash the prefix is left out without an error;
- a key of a Json with an index that is no number, or a label in quotes, on a List: `json_set_node`
  returns TRUE and puts the object nowhere, so nobody owns it (`OwnedOnce` counts these).
  An index on a Map is a label that ends in `]`, such as `0]`; a negative index on an empty
  List appends None without end, as it is compared as a number without a sign;
- `json_set_node` with the key `""` replaces the root without looking whether it is a valid
  one, and leaves an error as it is; with the object NULL it gives a Map the value NULL,
  at which the iterator of pretty print ends: the rest is not printed, behind a comma;
- `%li` in a format takes an argument of `vsnprintf` and none of the switch in `vformat`
  (`example/ip4to6.c:12`; without a `%O` behind it this shows nowhere), and so do both arguments of
  `%.*s` (`src/print.c:157`): an object behind them, and what stands behind that, shows an argument
  that belongs in front of it. `FormatTakesArgs` says for which directives this is so; a double
  is left out there, since the caller may pass it in another register. A `%` that ends the format
  is looked at for ever (`src/print.c:147`);
- labels are printed as they are (`src/print.c:326`, `src/map.c:253`), so one with a quote or a
  backslash is not read back; `json_to_cstr` asks the root for its `to_cstr` (`src/json.c:377`), so a
  root that is a Str has no quotes and a None is `None` (`src/str.c:567`, `src/none.c:28`); a
  double has the six digits of `%g` (`src/double.c:98`). `PrintedReadsBack` says that these are all;
- the times of two timers are compared as int (`src/mloop/timer.c:44`): with more than 2^31 ms
  between them the later one comes first. `IntCast` in the model does this at `IntHalf`, which lies above
  all differences in the runs;
- the facilities of the logger share one Str, and each that writes to a file puts its prefix in
  front of it: the second of them writes `error: error: ...` (`src/log.c:106`; `MessageShared`
  says what each gets);
- `log_add_file` of a file that cannot be opened leaves its facility in nobody's hands
  (`src/log.c:123`; `LogReleases` excepts these, `lost`); `log_destroy` does not clear the list, and a second `log_init` forgets
  the facilities of the first;
- `realloc(p, 0)` frees the block and returns NULL, which the wrapper takes for a failure:
  the entry stays in the table (`src/memtracer/mtrace.c:73`). `strndup` is noted with the longer
  of the two lengths (`asked` is at most the size noted), for which `strlen` reads on where the text does
  not end in the first n bytes (`src/memtracer/mtrace.c:141`, as `src/argparse.c:107` may call it);
- `regex_split` with an expression that matches the empty text does not end when there is no
  limit of splits; `pointer_cmp` gives 0 for a greater pointer;
- `path_abspath` makes a relative path normal and leaves an absolute one as it is;
- `mloop_timer_remaining` returns now minus time, which is negative until the timer is
  due, while `masc/mloop.h` calls it the remaining time;
- an index at or beyond the length of an Array is the place behind its block (the
  comment at `src/array.c:93` speaks of the last element), and `array_set_at` writes there;
- objects that `json_parse_to_obj` has taken off its stack are lost when their
  closing bracket does not match or their parent refuses them;
- a bracket that closes the root makes the parser expect the end, so `]` behind a
  complete root is accepted any number of times; a comma before a bracket that closes
  an inner List or Map is accepted too;
- `MLOOP_MAX_EPOLL_TIMEOUT` bounds the timeout only while no timer is armed; with one
  armed for a later time the loop sleeps until then (`NextTimer`);
- a loop that a done callback stops while terminated children are left, and that is
  run again, does not wait for them until another child ends: `got_sigchld` was
  cleared before. `ZombieReaped` therefore runs with `MaxRuns = 1`;
- a file that a callback cancels, and that was reported in the same call of
  `epoll_wait`, is still called (`HandleIo` does not ask whether it is registered);
- a packet callback that deletes its reader, or a data callback that does so when the
  end of the file was reported too, leaves the loop with freed memory;
- `iter_del_obj` of a Map leaves the iterator with the key it has just freed, which
  `iter_get_key` would return; called twice for one element of a List it deletes the
  one before;
- a Map takes NULL as a value, and `next()` then returns what looks like the end;
  `map_for_each_kv` calls its callback with the value and the key swapped.

## 5. What is proved

TLAPS checks these for all sets of objects, all bounds, all callbacks and all bytes:

| Theorem | States |
|---|---|
| `TypeCorrect` | `Spec => []TypeOK` (main loop; no run checks it besides) |
| `TimersConsistent` | `Spec => []TimerListConsistent` |
| `TimersInOrder` | `FitsInt => (Spec => []TimersSorted)` |
| `RearmedTimersWait` | `Spec => RearmedWaits` |
| `TimersServed` | `FitsInt => (Spec => TimersAreAService)` |
| `EventsConsistent` | `Spec => []EventListConsistent` |
| `ProcsConsistent` | `~RerunCancelled => (Spec => []ProcListConsistent)` |
| `IosConsistent` | `Spec => []IoListConsistent` |
| `EofComesLast` | `Spec => []EofAfterData` |
| `SleepsIdle` | `OneRun => (Spec => SleepsOnlyWhenIdle)` |
| `TcpUsesLoop` | `TcpSpec => Spec` (server and client) |
| `TcpIosConsistent` | `TcpSpec => []IoListConsistent` |
| `ServerSound` | `RunsOnce => (TcpSpec => []ServerConsistent)` |
| `ClientSound` | `RunsOnce => (TcpSpec => []ClientConsistent)` |
| `BufferHoldsRest` | `Spec => []BufferIsRest` (packet reader) |
| `PacketsAreAStream` | `Spec => ImplementsStream` (packet reader) |
| `ParserAccepts` | `Spec => []GrammarAccepted` (JSON parser) |
| `ContainersSound` | `Spec => []NodesSound` (List, Map, Array) |
| `OperationsAgree` | `Spec => []OpsAgree` (List, Map) |
| `IterStays` | `Spec => []IterInPlace` (Iter on a List or Map) |
| `TableRight` | `Spec => []BlocksTraced` (program, logger and tracer) |
| `LoggerReleases` | `Spec => []LogSound` (program, logger and tracer) |
| `StrTextKept` | `Spec => []TextKept` (Str) |
| `FormatArgsTaken` | `Spec => []FormatTakesArgs` (formats of all directives) |
| `ReprWrittenFits` | `Spec => []WrittenFits` (`cstr_repr` into any buffer) |
| `PathsLead` | `Spec => []PathLeads` (path) |
| `TextsReadBack` | `Spec => []ReadsBack` (escapes, lines, splits) |

Assumptions: those named in the modules (`NULL` is no object, readers and
writers are files and differ, an object is a timer, a file or something else, as it is one
struct; a text in quotes, another value and a punctuation mark are different tokens; NULL is
no object, key, None or entry of a Map, and `cmp` ranks each object; an Array has a place;
the bytes of a Str are of the kinds that the escapes tell apart, what it is filled with is one of
them, and a format has any types, lengths, widths and precisions, with no `.*` in front of an `O`;
the buffer of
`io_readline` has room for a byte; bounds are natural numbers), and four hypotheses in the statements. `FitsInt` (`MaxTime < IntHalf`) says that the differences of times
fit into an int: without it `ml_timer_cmp` changes sign and the list is not
sorted. `~RerunCancelled` is the contract on reruns of section 2. `OneRun` is `FitsInt`,
the same for the clock, and a loop that runs once: if the callback of a child stops the
loop, the children behind it stay unreaped without a flag that says so, and a second
`mloop_run` sleeps although they have ended (the hazard at `mloop.c:407`). `RunsOnce`
(`MaxRuns <= 1`) is the same for server and client: run again, the loop calls `_timeout_cb`
of a client whose connection was refused, and a loop that was destroyed and initialised
again does not watch the clients that the server still has (section 4).

The argument. `NextCases` splits a step of `MLoop` into the steps of each part and
of the core, so each invariant is looked at only under the steps of its own part
and `MLoopDestroy`. None of the invariants is inductive alone:

- `TimersSorted` needs that a listed timer is listed once (otherwise removing it
  leaves a copy with a new time): it is proved together with
  `TimerListConsistent`. Inserting keeps the order because `list_sort_in` puts the
  timer behind the last that is not greater (`InsertAtInOrder`);
- `RearmedWaits` needs that a timer armed in the pass is armed for a time after
  `snap`, which holds as `snap <= now` and its period is positive;
- `TimersAreAService` needs both, and that the list and `armOrder`, which is what the service
  knows, have the same timers, those of one time in the same order (`ArmedInOrder`). So the
  head of the list is the timer that the service serves next: the first armed of the earliest;
- `EventListConsistent` needs that the iterator exists only in the pass
  (`IteratorInPass`), where no other part can take the loop out of it
  (`EventsRest`) and `mloop_destroy` cannot run;
- `ProcListConsistent` needs that a loop that is not initialised has no processes
  (`ProcsEmpty`): `mloop_proc_delete` does not look into the list then;
- `IoListConsistent` needs the same (`IosEmpty`), and that reported files and a
  running reader exist only while the loop is in `_handle_epoll`
  (`DispatchInLoop`);
- `EofAfterData` needs that the end of a file comes with its data in all that is still to
  be dispatched: in what `epoll_wait` reported and in what the running reader has to do
  (`EofInv`). It stays so as nothing comes behind the end of a file and only its reader
  takes data out of it; the other parts call no callback meanwhile (`CallbackReturns`);
- `SleepsOnlyWhenIdle` needs that whatever there is to do shows in what `mloop_run` looks
  at for its timeout: a fired event in `pending_event`, a delivered `SIGCHLD` in
  `sigchld` (`SleepInv`), a due timer in the first of the list, as this is sorted.

`TcpUsesLoop` goes through the actions of server, client and network: each of them is one
operation of the loop, or leaves it alone. Only `ArmTimeout` needs an invariant
(`StartingTimed`): the client is about to arm a timer only if it has a timeout, as
`TimerNew` takes a positive number. What holds of the loop for every application then
holds with the two on it.

`ServerConsistent` and `ClientConsistent` go on from there, with the invariant of the loop's
files (`IosInv`) in the background. `TcpSteps` sorts the steps of the system: those of the
loop, of the server, of the client and of the network, and what the application does with
the loop itself. What the steps of one side leave of the other is said once (`Touches`, which files
a step is about; `LoopCalls`, whom the loop may call), so each side's steps are looked at under its
own invariant only. The server's, `ServerInv`, adds that nobody waits twice for `accept`, that those
who wait are no clients yet, and that there are clients only since the loop ran. The client's,
`ClientInv`, adds where its code may be for each place of the loop (`ClientPlace`), that
`conn_evt` is there only before the answer (`Connecting`) and the second object on the socket only
after it (`Heard`), and that a timer which is left without `conn_evt` is about to be deleted or will
not expire, as the loop has stopped (`TimerAtHand`): this is what makes it safe that `_timeout_cb`
deletes both.

The packet reader's invariant `PkgInv` says at each place of `_pkg_data_cb` where each
byte is: before the search the buffer, or the portion if there is no buffer, is the
part of `received` from a start that was reached by cutting off packets; during the
move the first `i` bytes of the buffer are the first of the rest, and those from
`pos + i` on are still where they were (this is why the copy must go upwards);
between calls the buffer is the rest. `pos` and `taken` move together, no byte
between them is a sentinel, so each packet is what `PkgStream` hands over next.

The parser keeps a stack and what it expects, the grammar a stack and a set of what may come.
`ParserInv` says that, as long as the text can still become a value, the two stacks are
equal, from the root to the open container (`IsPath`: what stands on a Map is a label, and a
label stands on nothing else), and what the parser expects is one of the ways `Agrees` lists for
what may come. The parser expects less than it should in none of them and more in some
(behind a comma it takes a closing bracket), so the theorem is about texts that are accepted by the
grammar, as the property is. `LabelsOnMaps` is what stays true of the stack of a text that is refused.

The containers are proved about pointers. `RunsAlong` says that a chain runs along a sequence of
nodes: the head is its first, the pointer of each leads to the next, the last to NULL, and
no other node is allocated. There is one such sequence and `Chain` finds it (`ChainIsPath`), so
`LinkedSound` and `UnlinkedSound` can say what the two changes of pointers do to the
sequence: one node more or less at one place, and every other node holds what it held. Each
operation of a List or Map is one of the two, or another object in a node, at the place
that its index, object or key means (the lemmas named `...Place`; the cases of `_fix_index`
are all there), or nothing. From this follow the soundness of the chain (`SoundFor`) and,
in the same lemmas, what the operations do to the elements. `IterInv` is added for an Iter:
`IterAt` says that its index is the number of the kept less one, that these are the first ids, and
that its next node is the one behind them, or that it saw the end and `late` came later.
It is what makes deleting right: `_del_obj` of a List goes by the index, that of a Map by a
key, and both must find the node that `next()` returned last.

`TableRight` is about every program that `Log` describes, for each allocator and size of the
table. `MemSound` is its invariant: while it traces, the table is there with all its slots,
and each block in use that was asked for has exactly one entry. For each wrapped call a
lemma says that it keeps `MemSound` if the address it is handed was not in use
(`MallocSound`, `StrndupSound`, `ReallocSound`, `FreeSound`), so every action of `Log` is a
composition of them. What the lemmas rest on is the first slot of a loop (`FirstFound`, by
well-founded induction) and the number of slots in use before and after (`EntryAdded`,
`EntryRemoved`, `EntryMoved`), which is what the counter is compared with. `LogInv` is
`MemSound` with the types of the logger's variables.

`LogSound` is proved on top of it (`LoggerInv`). The memory in use is parted into what the program
has, the table, the facilities, the nodes of their list, the text of the message and what was
lost, and no block is in two of them (`Parted`): so a block freed by one is not missed by
another, and `log_destroy` leaves nothing but the program's, the table and what was lost. `Sending` says
which facilities have been shown the message at each place in the list, whatever
callbacks add behind that place. One lemma for each action, and one for each function of the logger
that allocates, with a case for each allocation that may fail.

`MascListLemmas` has the facts they rest on: what `RemoveFirst`, `InsertAt`, `Append`
and `Tail` do to the members, the absence of duplicates and the order of a
sequence. The least index is found by well-founded induction on the natural
numbers (`MinOfNats`).

`Chain`, `ListOf` and `MapCopy` are recursive functions, and induction with an operator as its
parameter is out of reach. The proofs name the function that such a definition should be,
show that it satisfies the recursion, so that there is one to choose, and that any other that does
differs from it nowhere, as there would be a least place where it does.

What the texts and paths become is said of loops. A loop is the function from the number of its
rounds to what there is after them (`Steps`); there is one (`StepsExist`), two that begin
alike and go on alike end alike (`SameSteps`), and what holds at first and is kept by each round
holds at the end (`AllSteps`). So a lemma says what a loop has done after `k` rounds, and is
proved for one round; this is where it matters that `MovedUp` goes from behind and `MovedDown`
from the front. `TextHeld` is the invariant of a Str: `TextKept`, and that the text is one of bytes that
the program puts in. Each operation has a lemma that its block is that of its text
(`StrTextKept` needs all of them).

- `FormatArgsTaken`: at each object `ap_p` begins again where the switch has come to, and from there
  on `vsnprintf` takes what each directive needs (`FormatStepIs`, `VformatShows`). So what a directive shows is as
  far from its own argument as the switch was behind at the last object (`ShownBehind`), which is not at all
  if every directive up to there is counted, and at least one if one is not (`CountedUpTo`);
- `ReprWrittenFits`: the writes to the short buffer and to the long one go on alike. After each the
  lengths are equal, the short one holds the beginning of the long one, and is ended inside of
  its size (`RunsAlike`);
- `PathsLead`: `Way` is what is left of a path by the rounds of `path_normpath`, and after each
  round it is the way to the place where the parts so far lead (`WayStep`). A place has one way (`WayUnique`), so
  a path that leads there and is normal is that way, and normalising it again changes nothing.
  That a joined path leads where it should is `WalkConcat`: to walk two paths is to walk their
  concatenation;
- `TextsReadBack` is about every text, so it needs of `TextHeld` only that the text is one of the bytes
  that the program puts in. A reader of escapes is a function on the places of what was written,
  each in terms of a later one: there is such a function (`ReaderExists`), and from the last
  piece down it gives the rest of the text (`ChainRead`). The pieces lie one behind the other
  (`PiecesLie`), and for each sort of byte the reader turns what was written for it into that
  byte again (`ReprDecodes`). Lines go by the passes of `io_readline`: a line goes on until a pass
  ends with a newline or with the text (`PassIs`, `LineAtIs`), so the lines are cuts of the text
  behind its newlines, however short the buffer is (`LinesFrom`). For splits, `SplitAfter` says what
  holds after each round: what was cut off, with the separator behind each part, is the beginning
  of the text, and no part has the separator. `Replace` is a split and a join; replacing back
  needs that parts without a byte are known from their join by that byte (`SameParts`).

Only model-checked: the liveness properties (out of the prover's reach), the sequence
next() goes through in an Array (the theorem keeps its index in the block), and five
invariants. `NodesAgree`, `OwnedOnce` and `PrintedReadsBack` are about values of values, of any
depth: `JsonNodes` goes through them with `RECURSIVE` operators, which are for TLC, and what they
compute for every depth would be an induction over data. `NetworksAgree` is about remainders of
powers of 2, which the provers do not know. `ReadAsMeant` and `WordsKept` count and compare over the whole
line and the whole result of a command line, and are true of options only whose dests, words and defaults
differ: the run is of a program that has such ones. They are the next to be proved, from what
`Without` and `TakeWords` leave of the count of a word.

## 6. Not modelled, and the plan

Not modelled: Serial, Socket, DateTime, Regex and the primitive objects, thin wrappers of
libc with one value each; the dispatch by class; of the main loop,
`mloop_run_time`, `mloop_io_by_io` and the accessors, which change nothing, the exit
status of a child, failing `fork` and `epoll_ctl` (they leave everything as it was),
nested `mloop_run`; of a Json, the copy of a whole one; of the argument parser, how options
are made and the text of its help; of the tracer, the listing of its table; layout everywhere
but in pretty print.

What could be added: the comparison of containers, `cstr_to_number`, `ip_set_cstr` and
`datetime_parse`; `argparse_add_opt` and `aparg_parse_nargs`.

Proofs to add: that `argparse_parse` loses no word (`WordsKept`), for options whose dests, words
and defaults differ, and that a node of a Json has one owner (`OwnedOnce`) where the model's functions can be
reasoned about.
