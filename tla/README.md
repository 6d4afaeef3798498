# Models and proofs of iperf (kernel-testkit)

This directory holds a TLA+ development of the `iperf` program: its server, its
start-up, the exchange of test parameters over the control connection, the
embedded lists of `list.h`, and its copy of cJSON: tree functions, printer,
parser, comparison, duplication and minification. TLC checks small instances of
the models; TLAPS proves the main invariants for every value of the constants.
Paths below are relative to `src/iperf`.

The program is unfinished: TCP is the only protocol listed, no data streams are
created, the client is a stub, and the tree does not build as it stands
(`iperf_tcp_*` and `tcp` are used but not declared, `list_add_tail` is called
with three arguments). The models read those places as they are plainly meant:
`iperf_defaults` lists one TCP protocol, whose `listen` may succeed or fail, or
none if there is no memory for it: `main` does not look at its result.

## Inventory

| Component | State | Operations | Hard behaviour | What makes it correct |
|---|---|---|---|---|
| Test descriptor (`iperf.h`, `iperf_api.c`) | role, sender, reverse, protocol, duration, state, control socket | `iperf_set_test_role`, `iperf_set_test_reverse`, `set_protocol`, `get_parameters` | fields derived from each other (`sender` from role and reverse, retransmit statistics from sender and protocol), NULL protocol | the two ends take opposite directions; no NULL protocol is read |
| Accept path (`iperf_server_api.c`, `iperf_api.c`, `net.c`) | `ctrl_sck`, `state`, open sockets, the data listener | `iperf_accept`, `iperf_exchange_parameters`, `iperf_set_send_state`, `iperf_on_connect`, `Nwrite` | clients that connect, stall, send garbage and leave at any point; writes that fail half way through a conversation | one session at a time, agreed with its client; later clients turned away without touching it; no socket lost |
| Run loop (`iperf_server_api.c`, `net.c`, `main.c`) | epoll set, listener, timer | `iperf_run_server`, `iperf_server_listen`, `sighandler` | errors of each set-up step, blocking calls, signals | serves only when set up; waits only with a complete session |
| Start-up (`main.c`) | the descriptor while options are read | `main`, `iperf_parse_arguments`, `run` | order of options, ignored results | roles exclude each other; a server starts from a known descriptor |
| Parameter exchange (`iperf_api.c`, `net.c`) | bytes in flight, `Nread`'s count, the settings of both ends | `send_parameters`, `JSON_write`, `JSON_read`, `get_parameters` | frames split and cut at any byte, no memory, 64-bit settings in a double | the whole frame or nothing; both ends have the same settings afterwards |
| Embedded lists (`list.h`) | `next`, `prev`, traversal cursors | add, delete, splice, `list_for_each_entry_safe` and its reverse | removal while traversing, heads left stale by `list_splice` | lists stay rings both ways; each entry is visited once |
| cJSON tree (`cjson.c`) | `next`, `prev`, `child`, `type`, `string` | create, arrays of values, add, insert, detach, delete, replace, duplicate, references | an item does not know its container; references share children; allocations fail | an ordered forest; nothing freed that is still linked |
| cJSON printer (`cjson.c`) | the print buffer | `ensure`, `print_*`, `cJSON_Print`, `cJSON_PrintBuffered`, `cJSON_PrintPreallocated` | growth in the middle of a text, three sources of memory, failed allocations | stays in its memory; the text is the item's; no buffer lost |
| cJSON parser (`cjson.c`) | the text with offset and depth, the pending calls and their lists | `cJSON_ParseWithOpts`, `parse_*`, `utf16_literal_to_utf8` | failures half way through nested lists, unchecked reads at the end, estimated sizes, a hand-kept depth | stays in the text and in its memory; returns what the text says, or NULL and nothing allocated |
| cJSON comparison, minification (`cjson.c`) | none, the items and the text they are given | `cJSON_Compare`, `cJSON_Minify` | arrays of different lengths, repeated names, comments and strings that do not end | equal items are equal; the meaning of a text survives |
| Timer registration, client stub, accessors, messages, unit conversion | none, or single fields | | | not modelled: no caller, no state, or constant text |

The server is one thread. Processes interact through TCP connections only: the
clients' actions are external and appear in `IperfAccept` and `ParamExchange`.
The descriptor is shared by everything the thread calls; `main.c` fills it in,
`iperf_run_server` sets up its descriptors, `iperf_accept` reads the clients'
parameters into it through cJSON.

## Modules

| Module | Models | Composition |
|---|---|---|
| `IperfTest` | the descriptor as a record and the functions that keep its fields consistent, as operators from records to records | extended by `IperfAccept`, `IperfMain`, `ParamExchange` |
| `IperfAccept` | `iperf_accept` and all it calls, one step per system call that can fail or that clients interleave with; clients and kernel queue external | refines `ControlSession` |
| `ControlSession` | abstract: an owner, and the answer each client has had | |
| `IperfServer` | `iperf_run_server` around `IperfAccept`: set-up, loop, `epoll_wait`, returns, signals | extends `IperfAccept` |
| `IperfMain` | `main` and the getopt loop over arbitrary command lines | |
| `ParamExchange` | both ends of one exchange, counting bytes | |
| `ListHead` | links and traversal of `list.h`, one C statement per `EXCEPT` | refines `Lists` |
| `Lists` | abstract: a sequence of entries per head | |
| `CJSONTree` | the links of cJSON items under the public tree functions | refines `JsonForest` |
| `JsonForest` | abstract: allocated items and the sequence of children of each | |
| `CJSONPrint` | the printer, one step from call or return to the next; a pending `print_array` or `print_object` is a frame of `open`, and what a step writes is an operator from printbuffers to printbuffers | extends `PrintBuffer`, instantiated by `CJSONText`; checked against the grammar of JSON (`JSON`) |
| `CJSONCommon`, `PrintBuffer` | what printer and parser share; the items and the printbuffer, with what the printer promises of its memory | extended by `CJSONPrint`, `CJSONParse`, `CJSONText` |
| `CJSONParse` | the parser, one step from call or return to the next; a pending `parse_array` or `parse_object` is a frame of `stack` | instantiated by `CJSONText` |
| `CJSONText` | a printed item or a text from elsewhere, perhaps minified, parsed and compared, as `JSON_write` and `JSON_read` use both halves | extends `CJSONParse` and `PrintBuffer`, instantiates `CJSONPrint`; checked against what a text means (`Meaning`) |
| `MCIperfAccept`, `MCIperfServer`, `MCParamExchange`, `MCCJSONTree`, `MCCJSONText` | constants for TLC | |
| `IperfTest_proofs`, `IperfServer_proofs`, `IperfMain_proofs`, `ParamExchange_proofs`, `ListHead_proofs`, `CJSONTree_proofs`, `CJSONPrint_proofs`, `CJSONParse_proofs` | lemmas and theorems | |

A C variable keeps its name; a position in the code is a value of `pc`, `lpc`,
`wpc` or `rpc`. A pointer that is read while NULL sets `fault` (or moves the
process to `"crashed"`), after which nothing runs. Operators described as faulty
variants are mistakes that a change to the code could make. They occur in no
next-state relation; putting one in the place of the operator it is named after
makes the property it is paired with in `PROJECT.json` fail. A definition whose
lines lie within those of a larger one is not always listed by itself in the map
of `PROJECT.json`.

Texts are sequences of characters, and a character is its name: `"a"`, `"tab"`,
`"control"` for every other one below the blank, `"195"` for a byte of UTF-8. An
item is a record with its children inside. The parser's memory is a count of
blocks; `owned` in a frame is how many of them `cJSON_Delete` finds from the head
of that call's list, so a block that is not linked in time is lost when the call
fails, as it is in the code.

What the models rely on outside the repository, or leave to choice:

* A client opens one connection, sends its frame in two parts or not at all, and
  may leave at any moment. A frame that arrives whole may still fail to parse.
* A write to a client that has gone may succeed, fail with `NET_HARDERROR`, or
  kill the process, because SIGPIPE keeps its default action.
* Sockets block and every installed signal handler ends the process, so reads
  and writes never return early with EINTR or EAGAIN.
* A length word cut short leaves `nsize` with an arbitrary value. Only values up
  to `MaxText + 1` are tried, which includes too short, right and too long.
* The buffers `iperf_on_connect` leaves unset print as any client, or none.
* `CallAgain` of `IperfAccept` is a caller that the tree does not have: it calls
  `iperf_accept` although a test is set up. `iperf_run_server` does not (`Call` has
  its guard, `state != CREATE_STREAMS`), but what `iperf_accept` does for such a
  caller, denying the client, is half of it, and its comments are about that.
  `IperfServer` has `Call` alone.
* Nothing ever adds a descriptor to the epoll set, so `epoll_wait` can only
  return with an error.
* Users of `list.h` and cJSON keep the contracts stated at the head of
  `ListHead` and `CJSONTree`; so no list head is used again that `list_splice` has
  left stale, and no item is freed while a reference from outside leads to it. In
  `CJSONTree` memory runs out when every block is in use, in the middle of a copy
  or an array as well: each pending call then deletes what it has made. An item
  that is no container is the same as one that stays empty. `held` is no variable
  of the code: it is what the caller has been given and has not passed on.
* A raw item has its text: `cJSON_CreateRaw` deletes one it has no memory for, and
  the parser makes none. (`print_value` frees the buffer for a raw item without
  text, and `print` would free it again.)

## Runs

| Run | Checks | Shows |
|---|---|---|
| `accept` | `TypeOK`, `OneSession`, `SessionAgreed`, `SocketAccounting`, `OngoingTestUndisturbed`, `OfferResolved`, `ImplementsControlSession` | one owner, a legal conversation with it, ACCESS_DENIED at most for all others, agreement on protocol and direction, no socket left open, a test that is set up untouched by a later call; and an offered exchange comes to an end unless its client keeps silent for ever |
| `report6` | `ReportNamesPeer` (fails) | the listener the program makes is AF_INET6 (`ListenerFamily`), and then the line "Accepted connection from" prints unset buffers |
| `server` | `WaitsWithSession`, `NoServiceWithoutSetUp`, `FirstClientAnswered`, `WaitHasReason` | the loop goes to `epoll_wait` only with a finished exchange; set-up failures end it before any client; a client waits in the backlog for ever only behind a client that holds the exchange and keeps silent, or behind a test that is set up |
| `second_client` | `SecondClientDenied` (fails) | after the first session the loop never accepts again, so a second client is not denied |
| `udp` | `NoNullProtocol` (fails) | a client that asks for UDP makes the server go through a NULL protocol |
| `main` | `HandsOverServerTest`, `RoleExclusive` | no order of options changes a role once set; a server starts from the defaults, with TCP listed or, if `iperf_defaults` failed, without |
| `client` | `ClientModeStarts` (fails) | `-c` reads `protocol->id` before a protocol is selected |
| `exchange` | `TypeOK`, `FrameOrNothing`, `SettingsArrive`, `OppositeRoles`, `ReaderReturns` | the reader gets the frame that was written or NULL; settings and direction agree afterwards, zeros included but for `len` and `pacing_timer`: a zero is not sent, and these have another default |
| `list` | `TypeOK`, `Rings`, `TraversalInStep`, `ImplementsLists` | the links implement sequences, and the safe traversals visit each entry once, forwards and backwards |
| `tree` | `TypeOK`, `NothingDangling`, `SiblingsLinked`, `NothingLost`, `ImplementsForest` | the links implement an ordered forest and never lead to freed memory; every item in no container is one the caller holds, whatever was copied half way |
| `names` | `ChildrenNamed` (fails) | a replacement in an object keeps its own name or lack of one (a name that finds no memory when it is copied has the same effect) |
| `text` | `TextTypeOK`, `StaysInBounds`, `Faithful`, `NothingLeaks`, `FiveMoreSuffice`, `InsideText`, `NestingBounded`, `OutputFits`, `FailureFreesAll`, `ParsedRight`, `RoundTrip`, `ComparesEqual`, `MinifyKeepsMeaning` | printing stays in its memory and gives the item's text; parsing reads inside the text, writes inside its blocks, frees everything when it fails, and returns what the text says; what is printed is parsed to the same item |

What the properties of `text` leave out is named in them, each with its line,
and is how the code behaves: NaN and the infinities, which are printed as null
and come back as that; `ensure` after a failed `realloc`, a prebuffer of no
bytes without `realloc`, `cJSON_PrintBuffered` that fails for want of anything
but memory; numbers of more than 63 characters, of which the rest is parsed as
something else; `cJSON_Compare`, which finds two arrays equal when one is a
prefix of the other and looks up only the first of two members of one name, so
that its equality (`cjson.h:227`, "Recursively compare two cJSON items for
equality.") holds for items without those, or for one item and itself (`same`,
the same pointer); `cJSON_Minify`, which takes `/*/` for
a whole comment and runs past the terminator after a comment or a string that is
not closed.

`ImplementsLists` and `ImplementsForest` are about where entries and items are:
the abstract `Insert` and `Join` allow either end of a list. Which end
`list_add` and `list_add_tail` choose is their one line.

### Bounds

* `accept`, `report6`: three clients are an owner, one that is denied and one
  behind it; `Backlog = 2` lets the queue be full. The parameter objects are TCP,
  TCP reversed with a duration, UDP, neither, and one whose title is no string.
* `server`, `second_client`, `udp`: two clients, the first and one behind it.
* `main`, `client`: five options reach every order of role, protocol and an
  option that is refused; later ones repeat.
* `exchange`: a word of four bytes and texts of up to two are split at every byte.
  A double of 18 bits beside a `valueint` of 21 keeps the rounding and the
  saturation of 53 and 63 within TLC's integers; the settings tried lie on both
  sides of each boundary.
* `list`: two heads and three entries give lists with a first, a middle and a
  last entry, and splices of lists of any of those sizes.
* `tree`: four blocks, under symmetry: a container with three children, containers
  three deep, references to items in and out of containers, and memory that runs
  out. `names` has six blocks, so that the failure it finds is not one of memory.
* `text`, printing: an item of every type, arrays and objects of up to two
  members and two levels deep, some three deep; sizes from 0 past what the larger
  items need, so that a buffer grows at every request of some call; a limit of 40
  so that some requests exceed it and some lie in its upper half; each of the
  first four allocations failing.
* `text`, parsing: every word of up to three characters of an alphabet of ten, which
  has each bracket, quote, escape, comment and blank meet each other and the end of
  the text; the texts of the items whole, and with each of their first twenty
  characters dropped, made a backslash or a blank, or the text cut off there; literals on both sides of each
  boundary of UTF-8 and of the surrogates; numbers, comments and spellings no
  printer chooses. `NestingLimit = 2` with items three deep, and
  `NumberLength = 6` with numbers of seven characters, put both limits within reach.

### Fairness

The server thread is a single sequential process, so it is weakly fair for the
steps that do not wait; blocking calls are actions that are enabled only when
what they wait for is there. Nothing is assumed of the clients, nor of who calls
`iperf_accept`: a silent client holds the server for ever, and `OfferResolved` and
`WaitHasReason` name that outcome (`HeldBy`). In `ParamExchange` only the
reader is fair. Failures are never fair, but for the `epoll_wait` of a server
without an epoll descriptor, which returns at once.

### Deadlock

Deadlock is not checked where the program really may stop: `accept()`, `read()`
and `epoll_wait()` block for good when nobody sends, and a process that has
returned or crashed takes no step. `list` checks it: a list can always be used
again.

## Proofs

All theorems hold for every value of the constants that satisfies the named
assumptions of the modules.

* `IperfServer_proofs`, the accept path. `TypeCorrect` is type correctness. `OneSessionHolds` and
  `SocketAccountingHolds` follow from `SessionInv`: beside the type invariant it
  says which transcript the owner has at each position of the thread (`Stage`),
  that queued and new clients have been sent nothing (`Arrivals`), which sockets
  are open at each position (`SocketsInUse`, `Sockets`), and when the data
  listener is up (`SetUpDone`). The transcripts alone are not inductive: that
  `CREATE_STREAMS` is not sent twice depends on the position. `OngoingTestSafe`
  is the action property, from the same invariant. `SessionAgreedHolds` adds what
  the descriptor must hold after `get_parameters`, by a lemma on that operator.
  `RefinesControlSession` shows that initial states map to initial states and
  each step to a step or a stutter of `ControlSession`.
* `IperfServer_proofs`, the run loop. Every step of the server is a step or a stutter of
  `IperfAccept` (`StepOfAccept`), so `SessionInv` and `Negotiated` carry over.
  `OneCall` relates the loop to the accept path: nothing is accepted before the
  loop, no client is denied inside the one call it makes, and that call returns 0
  only with the test set up. `WaitsWithSessionHolds` needs all of it;
  `NoServiceWithoutSetUpHolds` rests on which descriptors exist at each position.
* `IperfMain_proofs`. As long as the role is not the client's, the fields other
  than role and duration are those of one of `NewTests` (`Fresh`), since no option
  selects a protocol; `RoleExclusiveHolds` and `HandsOverServerTestHolds` follow
  for command lines of any length (`MaxArgs` is any number).
* `IperfTest_proofs` holds the lemmas on the descriptor that these share.
* `ParamExchange_proofs`. `TypeCorrect` and `FrameOrNothingHolds` follow from
  `FrameInv`, which relates bytes read, bytes left and the phase of the reader,
  with one exception: a length word that was cut short leaves the two unrelated,
  but then the connection has ended and nothing more can be read.
  `OppositeRolesHolds` needs to know where the server's descriptor comes from
  (`Delivered`: it is the initial one, or `get_parameters` of what the client
  sends), that the parameters name protocol and reversal (`ParametersSent`), and
  what `get_parameters` makes of them (`ParametersEffect`). It rests on
  `ClientsAssumption`: the client's descriptor was made by the functions of the
  descriptor, and a setting is an int or an unsigned integer of 64 bits
  (`SettingValues`).
  `SettingsArriveHolds` uses the same invariant, which has the settings beside the
  descriptor, and works out what a number is after its way through a double
  (`ToDouble`, `valueint`), for any sizes of the two (`BitsAssumption`: a double's
  significand has fewer bits than a `valueint`). That the powers of two double and
  grow would be an induction; here 2^k is the number of subsets of `1..k`
  (`PowerCounts`), which the library's theorem on the subsets of a finite set
  doubles when an element is added (`PowerDoubles`, `PowerSum`, `PowerGrows`). The
  width that `ToDouble` looks for then exists (`ExceedsExists`), what it returns is
  the nearer multiple of 2^k (`ToDoubleRounds`, `RoundedFacts`), hence wrong by at
  most half of 2^k where the number itself is at least 2^(DoubleBits + k - 1), and
  what does not fit a `valueint` is its largest value (`ValueArrives`).
* `ListHead_proofs`. `Rings` is not inductive: splicing a list into itself under
  another head would pass its local test, and it does not say that a walk from a
  head comes to an end. The inductive invariant (`ListInv`) is that the links
  represent some sequence of entries for each live head: following `next` from
  the head yields it, following `prev` yields its reverse, no entry has two
  places, and entries without a place point to nothing or to themselves
  (`Represents`). For the traversals it adds that the cursors stand before what
  is left to visit, as long as the body has kept its contract (`InStep`). Each
  operation then takes one family of sequences to another, and the links are
  shown to represent the new one. `TypeCorrect`, `RingsHold` and `TraversalHolds`
  follow. For `RefinesLists` the sequences of the invariant must be those that
  the refinement map reads off the links (`Items`), of which there is only one
  (`MappedRepresented`). Where an induction over the list would be usual, the
  proofs take the least place at which something fails. Besides disjointness of
  heads, entries and NULL they use that the entries are finitely many
  (`EntriesAssumption`).
* `CJSONTree_proofs`. `NothingDangling` is not inductive: it allows two containers
  with the same first child, and deleting one would leave the other pointing into
  freed memory. The inductive invariant (`TreeInv`) is that the links represent
  a sequence of children for each container (`Shape`): the pointers between them
  are the ones `SiblingsLinked` asks for, no item has two places, an item without
  a place has no neighbours, child pointers lead to items in use, and no
  container is inside itself (`Grounded`). The walks of the module (`Along`,
  `Closure`, `Paths`) are recursive functions on numbers bounded by the number of
  items; lemmas say what each yields when the links represent a forest, that of
  `Closure` being the least set that nothing leads out of. Then every call is one
  of a few moves: put a root in, take a child out, replace a child, free a tree,
  build a tree in free blocks. For each move there is a lemma that the links
  represent what comes of it, and for each call one that it makes a move
  (`StepRepresented`); a call through NULL only sets `fault`. A copy or an array
  that runs out of memory changes nothing (`CopyFails`, `ArrayFails`): what the
  pending calls release between them is all that was made. The items made first
  are those before the last in the order of the recursion (`CopiedBy`), each of them
  is linked from one made before it or is the item of a pending call, and the least
  one that is not released would have such a link. `TreeHolds`,
  `TypeCorrect`, `NothingDanglingHolds` and `SiblingsLinkedHolds` follow, and
  `RefinesForest` shows that each move is a step of `JsonForest`. The contract
  that nothing freed is still referred to is a guard of the model
  (`NotReferenced`), stated at the head of `CJSONTree`; that items which are not
  references never point into freed memory is what the proof adds. Assumed of
  the constants: NULL is no block, name or node of a tree (`NullAssumption`,
  `NodeAssumption`), and there are finitely many blocks (`ItemAssumption`).
* `CJSONParse_proofs`, for any texts, limits and failing allocation. The
  invariant has three parts. `Control`: where the parser is about to read, the
  offset is inside the text, whose last character is the terminator; this rests on
  lemmas about `buffer_skip_whitespace`, about the words and numbers that are
  skipped, and about the closing quote. `Calls`: as many calls are pending as
  `depth` says, at most the limit. `Memory`: the blocks that are allocated are
  those the pending calls own, stated through a function of partial sums over the
  stack, since a sum over a sequence would be recursive. `StaysInside`,
  `RecursionBounded` and `FailureLeavesNothing` are what follows from each;
  `TypeCorrect` adds that no block is freed twice (the count stays a natural).
  `OutputFitsHolds` says of every text that what a string is decoded to fits the
  block that was measured for it. Each turn of the decoding loop puts out no more
  than it takes less the escapes that begin in it, and the block has a byte for
  each character but the first of each escape; escapes never overlap, since none
  begins at the second character of another. The exception is the last escape,
  which may take the closing quote along and so stand for one byte that was not
  counted, the terminator's. The loop is a function of the position (`Literal`),
  defined at each by its value further on; that there is one is a lemma, by a
  least counterexample, since no turn depends on a position before it.
* `CJSONPrint_proofs`, for any items, sizes, limit and failing allocation that
  satisfy `PrintAssumption` (the items' children, texts and names are what their
  types say; `InitialSize` is not 0). The invariant (`PrintInv`) says what the
  buffer is like at each position of `print_value`. While it goes on the buffer is
  `Good`: as long as `length` says, or 0 for `print`, which sets it at the first
  growth; the offset inside; one block allocated unless the memory is the
  caller's. When a child has been printed it is `Written` too: a terminator stands
  at or behind the offset, which is what `update_offset` looks for. Once a function
  returns false it is `Lost`, and that lists the ways in which memory or a bound
  may have been lost. `StaysInBounds` alone is not inductive, because whether the
  next write fits depends on all of these. The central lemma is `EnsureRoom`: when
  `ensure` succeeds, there is room for what was asked and a terminator behind it,
  which is why `print_number`, which does not ask for one, may write it
  (`WriteKeeps`). Each print function is then shown to ask for what it
  writes; for strings, that is that `EscapeCharacters` counts what `Escaped` writes
  (`QuotedLength`), two recursive functions on the same positions, which are shown
  to exist and compared by the least position at which they differ. The frames
  hold parts of the item (`InTree`), and there is one for each level of the output,
  so `depth - 1` in `print_object` is no underflow. `StaysInBoundsHolds`,
  `NothingLeaksHolds` and `TypeOKHolds` follow.

Model-checked only: everything temporal with fairness (`OfferResolved`,
`FirstClientAnswered`, `WaitHasReason`, `ReaderReturns`), since the prover does
not handle liveness under fairness; `NothingLost`, of which only the part about
calls that fail half way is proved; and what `CJSONText` says of the contents of
texts and items: `Faithful`, `FiveMoreSuffice`, `ParsedRight`, `RoundTrip`,
`ComparesEqual`, `MinifyKeepsMeaning`, and the half of `FailureFreesAll` for parses
that succeed. Those compare the code with definitions that are recursive in the
item or the text (`JSON`, `Meaning`, `Blocks`), and such an induction over data is
out of the prover's reach. Of `TextTypeOK` the two halves are proved, as
`TypeOKHolds` of the printer and `TypeCorrect` of the parser; that `CJSONText` puts
them together properly is checked.

## Not modelled

* `iperf_register_timerfd`, `iperf_deregister_timerfd`, `get_protocol`: no caller.
* `iperf_client_api.c`: a stub that returns 0.
* Single-field accessors; messages and usage text; `unit_atof_rate`; Makefile.
* `title`, `congestion` and other strings of the parameters, apart from the crash
  when one of them is no string (`CopiesNull`).
* The contents of JSON text in the exchange: `ParamExchange` counts bytes, and
  `CJSONText` has the text without the connection.
* In cJSON: `cJSON_InitHooks` and the hooks other than their presence and failure,
  `cJSON_GetErrorPtr`, `cJSON_SetNumberHelper`, the `cJSON_Is*` predicates and
  `cJSON_Version`, which are single reads or assignments; the locale's decimal
  point, which is the same for printing and parsing; sprintf, sscanf and strtod,
  which are external.
* `list_for_each` and `list_for_each_entry`, whose body may not change the list;
  the `list_entry` macros, which are address arithmetic.

## Plan

Done in the order of the first plan: accept path, run loop, start-up, exchange,
lists, tree, printer; then the parser, comparison, minification, duplication, array
builders and the reverse traversal; proofs of the accept path, the frame, the settings, the lists with their traversals and refinement, the tree with its
refinement, the parser with its string decoder, the printer with its buffer, the
loop, the options and the roles. Every safety property of the runs that is not about
the contents of a text, other than `NothingLost`, is stated by a theorem. What could
be added next:

1. A printer and a parser of one token at a time, with their grammar as a relation
   between tokens, so that `Faithful` and `ParsedRight` become invariants that need no
   recursive definition of a text.
2. `NothingLost` as a theorem: beside the moves of `TreeInv`, what each makes of the
   items that are in no container.
3. The data streams and the client, once the program has them.
