# socket-cpp: TLA+ models and proofs

socket-cpp is a small C++ library of blocking TCP and TLS sockets: `CTCPClient`,
`CTCPServer`, `CTCPSSLClient` and `CTCPSSLServer` over a base class `ASocket`.
It has no threads, no event loop and no protocol of its own. What is hard about
it is what happens between its system calls: partial sends and receives, errors
in the middle of a loop, timeouts, peers that reset or die, descriptor numbers
that come back in other hands, and error paths that leave an object half-way.
The TLS classes add sessions and contexts that nobody frees but they, and a
layer of records between what a caller sends and what the kernel sees. The
repository also carries the library its tests read their configuration with:
a table of strings that moves between files, memory and three Unicode forms.
The models follow the POSIX build.

Paths such as `TCPClient.cpp:379` are below `src/Socket/`, those of
`SimpleIni.h`, `ConvertUTF.c` and `ConvertUTF.h` below
`src/SocketTest/simpleini/`; `README.md:104` means the library's own README,
`Tests.cpp` the file in `src/SocketTest/`.

## Inventory

| Component | State | Operations | Interacts with | What makes it correct | Models |
|---|---|---|---|---|---|
| Data path of `CTCPClient` and `CTCPServer` | the loop's `int total`, the caller's buffer; in the kernel: queues, options, FIN and RST | `Send`, `Receive`, `SetRcvTimeout`, `SetSndTimeout`, `Disconnect`, `ASocket::SelectSocket` | its peer, through the kernels and the network | stays in the buffer; bytes in order, once; results tell the truth; calls come back when they should | `Connection`, `BytePipe` |
| `CTCPClient` life cycle | `m_eStatus`, `m_ConnectSocket`, `m_pResultAddrInfo` | constructor, `Connect`, `Disconnect`, setters, destructor | the process's descriptor table | no leak, nothing of others touched, status truthful | `TCPClient` over `Descriptors` |
| `CTCPServer` listening side | `m_ListenSocket`; in the kernel: port, backlog | constructor, `Listen`, `Disconnect`, destructor | the descriptor table, ports, connecting peers | no leak, no connection lost, result truthful, listens on its port | `TCPServer` over `Descriptors` |
| `ASecureSocket`, `SSLSocket` | `m_pSSL`, `m_pCTXSSL`, `m_SockFd`; in OpenSSL: the objects behind them | `SetUpCtx*`, `ShutdownSSL`, moves | the OpenSSL heap | every session freed once, with its context | `SSLSockets` |
| `CTCPSSLClient` life cycle | an `m_TCPClient` and an `SSLSocket` | `Connect`, `Disconnect`, setters, destructor | `CTCPClient`, OpenSSL | remains a `CTCPClient`; session and connection agree | `TCPSSLClient` |
| `CTCPSSLServer` listening side | an `m_TCPServer`; the application's `SSLSocket`s | `Listen`, `Disconnect`, moves, destructor | `CTCPServer`, OpenSSL | remains a `CTCPServer`; every descriptor and session in one `SSLSocket` | `TCPSSLServer` |
| Data path of the TLS classes | as of the TCP classes; in the session: an unfinished `SSL_write`, an unfinished record, bytes not yet returned | `Send`, `Receive`, `HasPending`, `PendingBytes`, `Disconnect`, setters | the peer's session, through a connection | as of the TCP classes; a poll that asks the session too misses nothing | `TLSStream` |
| `CSimpleIniTempl` | a table of sections and keys with load orders and comments; the blocks its strings are in | `LoadFile`, `SaveFile`, `SetValue`, `Delete*`, `Reset`, queries | files | strings live; the document keeps its order and comments; what is saved loads again | `SimpleIni`, `IniDocument` |
| `ConvertUTF` | the loop's `result`, source and target positions | six conversions | the caller's buffers | stays in the buffer; every character once; the result tells the truth | `ConvertUTF` |
| `ASocket::SelectSockets`, `TimevalFromMsec` | none | one `select()`; pure | callers' descriptors | | not modelled |
| `ASocket` base, logging, `StringFormat` | logger | | | no state a property is about | not modelled |
| Windows branches, tests, CMake | | | | | not modelled |

`PROJECT.json` has the same list with its files, every hazard at its line, and
the source lines of every definition.

### Who runs concurrently

The library asks that an object is used by one thread (`README.md:165`), so each
object, and each end of a connection, has one program counter. Concurrency comes
from elsewhere: the two ends of a connection and the network between them
(`Connection`, `TLSStream`), and objects on different threads of a process, which
share the kernel's table of descriptors and the heap of OpenSSL (`TCPClient`,
`TCPServer` and the TLS modules on top). One step is one system call, or one call
into OpenSSL, with the code up to the next one. `SimpleIni` and `ConvertUTF` are
sequential: there the difficulty is a long sequence of legal calls.

## The modules

```
Descriptors <-- TCPClient <-- TCPSSLClient --> SSLSockets      BytePipe <== Connection
            <-- TCPServer <-- TCPSSLServer --> SSLSockets               <== TLSStream
SimpleIni ==> IniDocument        ConvertUTF
```

A plain arrow points from a module to one it extends; a double one to the
abstract specification it implements.

### The connection

**Connection** is one established connection. The loops of the two classes are
the same, so an endpoint is a side, `"client"` or `"server"`, and the
differences are `Usable` (the client checks `m_eStatus`; the server gets a
descriptor that stays non-negative after `Disconnect`), `BadArgument` (-2 or -1)
and `OptionSet` (which socket option a timeout setter writes). A byte is the
position it has in what its sender was asked to send, which makes order,
duplication and loss visible without contents.

| Model | Code |
|---|---|
| `CallSend`, `RejectSend`, `SendSome`, `SendFail`, `SendKilled` | `Send`: entry, argument checks, one `send()` of the loop, -1, SIGPIPE |
| `CallReceive`, `RejectReceive`, `RecvSome`, `RecvEof`, `RecvError` | `Receive`: entry, checks, one `recv()` with a positive count, 0, -1 |
| `Continue`, `SizeLess`, `IntSum`, `ToInt` | `while (bReadFully && total < uSize)`, the `int`/`size_t` comparison, the `int` sum and the `int` result |
| `Poll` | `ASocket::SelectSocket` |
| `SetTimeout` | the eight setters; `timeo` is what the kernel has, `asked` what was asked for |
| `Arrive`, `Refuse`, `ResetArrives`, `Hangup`, `Crash` | the network, `close()` and the end of a process (external) |

`total += n` past `INT_MAX` is undefined in C++. `IntSum` gives the two outcomes
a build produces: the sum wraps, or `total` lives on in a wide register.

**BytePipe** is what a connection promises: in each direction a bounded queue of
bytes that open ends write and read in order. `PipeKept` says that `Connection`
implements it, with the stream accepted by `send()` as what was written and the
count returned by `recv()` as what was read. `TLSPipeKept` says that `TLSStream`
does so too, for the plaintext and with room for one record more.

**TLSStream** is the data path of the TLS classes above such a connection, from
the end of the handshake on. `queue[s]` carries units of ciphertext, one for each
byte of plaintext; a record can be opened when its last unit is there, and
`close_notify` is a record of one unit. The application keeps to the comments at
`TCPSSLServer.cpp:160` and `190`: it passes at least a byte, and an interrupted
`Send` is repeated with the same arguments, or refused.

| Model | Code |
|---|---|
| `CallSend`, `RejectSend` | `Send`: entry, also of the repetition of an interrupted one; not connected, or OpenSSL's "bad write retry" |
| `EnterWrite`, `BadCount`, `WriteUnit`, `WriteFails`, `WriteKilled` | one `SSL_write` of the loop: its records, a count of zero or less, what the kernel takes, -1, SIGPIPE |
| `CallReceive`, `RejectReceive`, `ReadPlain`, `ReadUnit`, `ReadFails`, `Continue` | `Receive`: entry, check, the bytes `SSL_read` returns, what it takes off the connection for them, 0 or less, the loop's condition |
| `Num`, `ToInt` | the `int num` of `SSL_write` and `SSL_read` from `uSize - total`, a `size_t` |
| `HasPending`, `PendingBytes` | `SSL_has_pending`, `SSL_pending` |
| `CallDisconnect`, `Shutdown`, `ShutdownKilled` | `Disconnect`, `SSL_shutdown` and `close()` |
| `SetTimeout` | the setters, those of the TCP classes |
| `Crash`, `Breaks` | the end of a process, and a reset (external) |

### Descriptors, sessions and contexts

**Descriptors** is the process's descriptor table: POSIX gives out the lowest
free number, so a closed one soon has another owner.

**TCPClient** is the life cycle of a set of clients. `pc` is the next system call
of `Connect`; `getaddrinfo`, `socket` and `connect` may fail on every address, and
`socket` must when no number is free. `Others` stands for the rest of the
process. `tuned[f]` records who set a timeout on descriptor `f`: with it a setter
that reaches somebody else's descriptor is visible. `CarefulCaller` says whether
the application calls the setters only on connected objects.

**TCPServer** is `Listen` by system calls, for servers that may have been given
one port. `backlog[f]` holds the connections the kernel has completed and
`accept()` will return, `peer[f]` the peer of an accepted descriptor, which is the
application's until it calls `Disconnect`. The kernel's rules are Linux's:
with `SO_REUSEADDR` two sockets may be bound to a port but one of them listens,
so the other fails at `bind()` or at `listen()`, depending on when it comes; and
`listen()` on an unbound socket picks a port. `BindFails` needs no reason: the port
may be a modelled server's, another process's, or forbidden; only the port of a
modelled server makes `bind()` fail for certain.

**SSLSockets** is the structure `SSLSocket` and the OpenSSL heap behind it:
`pSSL` and `pCTX` are its pointers, which may dangle, `ctxs` the contexts that
are live, `session[k]` the descriptor of the session made from context `k`.
`ShutdownSSL` frees both and leaves `m_pCTXSSL` as it was.

**TCPSSLClient** extends `TCPClient` with the TLS part of `Connect`: `tls` is its
next step (the TCP connect, `SetUpCtxClient`, the files, `SSL_new`,
`SSL_connect`), and each may fail and return at once with what was made so far.
Every step is a step of `TCPClient` or leaves its variables alone, so that the
results about `TCPClient` carry over. The application may connect an object that
is connected: `Connect` then drops the connection under a session that stays
(`OpensAgain`).

**TCPSSLServer** extends `TCPServer` in the same way. `Listen` fills an
`SSLSocket` of the application, `Move` is its move constructor and assignment,
`SSLDisconnect` closes `m_SockFd` whatever it is and leaves the number. `used` is
the history of which structures were given to `Listen` and not disconnected;
`CarefulApp` says that the application fills none in use, and disconnects each
exactly once.

### Configuration

**SimpleIni** is `CSimpleIniTempl`. A file is a sequence of lines: the names before
the equal signs of a line, and a body of one of the kinds `FindEntry` tells apart.
The parser takes one iteration of its loop per step. A section has its name from
one line, or, when the header has no `]`, from that line and those behind it up to
the next NUL the parser writes (`Title`, `RunsOn`, `SectionOfKey`). A value that
begins with `<<<` is a tag, whatever follows. `FromTable` says whether the
application passes `SetValue` strings that the queries gave it; a copy made of a
freed one may have any text (`Found`).
A pointer into the table has its text and the allocation it points into: the
block of the file, a copied string, or memory that is never freed. `InsertKey`,
`UpdateKey` and `ReplaceKeys` are the paths of `AddEntry`; `SavedText` is `Save`;
the queries are operators. **IniDocument** is what the header promises of all
this: a document whose sections and keys keep the order and the comments they
were created with. `KeepsDocument` says that the table implements it.

**ConvertUTF** has the six conversions, one step per iteration of their loops,
and a caller that goes on with another buffer where a call stopped. The
reference definition it is checked against (`CodePoints`) is Unicode's, written
independently of the code's tables.

### For TLC

The modules **MC...** give the constants values. Two of them put parts that share
nothing side by side: each behaviour is one of a single part, while the variables of
the others stay as they began, so a run has the sum of the states of its parts and
asks each what a run of its own would. **MCSafeParts** has two servers
(`TCPServer`), the table (`SimpleIni`) and the conversions (`ConvertUTF`);
**MCLiveParts** a TLS server (`TCPSSLServer`) and a connection (an instance of
`Connection`). The modules
**...Proofs** hold the theorems: one for each component, **ClientProofs** for both
clients, and **RoundTripProofs** for the round trip of `SimpleIni`. Operators named
`Name_Variant` are plausible mistakes in `Name`; no action uses them. Replacing
`Name` by its variant violates the property `PROJECT.json` pairs it with, so
none of the properties holds for free.

## What the runs show

| Run | Result | Shows |
|---|---|---|
| `conn_errors` | holds, 1.2 million states | `BufferInBounds`, `SendReport`, `ReportUnlessInterrupted`, `LossAccounting`, `ReceivedInOrder`, `ShortMeansClosed`, `PipeKept` |
| `client_fds` | holds, 436,000 states | `SSLClientTypeOK`, `HoldsWhatItNeeds`, `SessionsAccounted`, `StatusTruthful`, `OthersUntouched` (careful caller), `ContextsFreed`, `ConnectReturns` |
| `tls_stream` | holds, 321,000 states | `TLSTypeOK`, `TLSReceiveReport`, `QuietMeansCaughtUp`, `TLSPipeKept`, `TLSReceiveReturns`, `TLSDisconnectReturns` |
| `safe_parts` | holds, 1.0 million states | two servers: `TypeOK`, `DescriptorsAccounted`, `ListenReport`, `NoConnectionLost`, `KeepsItsPort`; the table: `IniTypeOK`, `StringsLive`, `RoundTrip`, `KeepsDocument`; the conversions: `ConvertTypeOK`, `SameText`, `ResultTruthful` |
| `live_parts` | holds, 225,000 states | the TLS server: `SlotsAccounted`, `SessionsAccounted`, `ContextsFreed`, `ListenReturns`; the connection: `TimedSendReturns`, `ReceiveReturns`, `PolledPartialReceiveReturns` |
| `conn_timeout_loses_bytes` | violated | finding 1 |
| `conn_blocks` | violated | findings 2 and 6 |
| `client_stale_fd` | violated | finding 3 |
| `server_rebind` | violated | finding 4 |
| `utf8_illegal` | violated | findings 5 and 9 |
| `client_reconnect` | violated | finding 7 |
| `ssl_server_leak` | violated | finding 8 |

TLC stops at the first counterexample. `conn_blocks` and `utf8_illegal` each check
one passage of the documentation that the code breaks in two ways: with
`TimeoutCalls <- Nobody` the first shows finding 6 and with `Receivers <- Nobody`
finding 2; the second shows finding 5, and with `Sources <- UTF32Sources` finding 9.

### Findings

1. `TCPClient.cpp:379`, `TCPServer.cpp:409`: a failed `recv()` is added to `total`
   as -1. When the first bytes of a Receive have arrived and a timeout follows,
   the loop goes on with `total` one too small: the next `recv()` overwrites the
   last byte, and the result is smaller than the number of bytes taken from the
   connection ("ret > 0 : bytes received", `TCPClient.cpp:329`). `LossAccounting`
   states exactly how much is lost: one byte for each failed call. The TLS loop
   breaks instead, and loses nothing (`TLSReceiveReport`).
2. `TCPServer.cpp:90`: the millisecond overload of `SetSndTimeout` calls
   `SetRcvTimeout`. A `Send` that was given a timeout blocks forever on a peer
   that does not read, and the receive timeout is overwritten.
   `TimedSendReturns` holds in `live_parts`, where the other three send setters
   are used.
3. `TCPClient.cpp:267`: a failed `Connect` leaves the closed number in
   `m_ConnectSocket`; the setters do not look at `m_eStatus` and reach whoever has
   the number now. Nothing else of the class does: `OthersUntouched` holds when
   setters are only called while connected.
4. `TCPServer.cpp:244`: after a failed `bind()` the unbound descriptor stays in
   `m_ListenSocket`, and the next `Listen` skips `bind()`: it waits on a port of
   the kernel's choice, against `ListensOnItsPort`. No other failure of `Listen` and
   no step of another server does that: `KeepsItsPort` (`safe_parts`, and a
   theorem) says that only a failing `bind()` takes a server off its port.
5. `ConvertUTF.c:308`: `isLegalUTF8` gives the second byte after ED and F4 no lower
   limit. The bytes `ED 41 80` convert to U+C040 with `conversionOK`, whatever the
   flag, and the letter A is gone. `SameText` and `ResultTruthful` hold for all
   other texts.
6. `TCPClient.cpp:381`: "A client socket can be polled to ensure that a receive
   operation won't block indefinitely" (`README.md:104`), and the example there
   and `Tests.cpp:250-254` poll and then call `Receive` in its default mode. That
   mode calls `recv()` until `maxSize` bytes came, so it waits when the peer sent
   fewer. `PolledPartialReceiveReturns` is what holds, with `bReadFully = false`.
7. `TCPClient.cpp:100`: `Connect` on a connected object closes the old connection
   itself ("The last one was automatically closed"). For the TLS client it closes
   the descriptor alone: the session stays on a number that is closed, and is lost
   with its context when `Connect` makes the next. `SessionsAccounted` and
   `ContextsFreed` say that this is the only way a session is lost, and one of two
   for a context.
8. `TCPSSLServer.cpp:62`: when a certificate, CA or key file does not load, the
   context stays, and `Disconnect`, which `README.md:160` says frees it, does not:
   `ShutdownSSL` looks for a session first. `TCPSSLClient.cpp:61` is the same.
   `ContextsFreed` names the step.
9. `ConvertUTF.c:88`: after a UTF-32 value above 10FFFF the strict conversions set
   the result and go on. A target that is full behind the value overwrites the
   result, the caller resumes, and the end of the text is `conversionOK`, where the
   strict flag promises an error (`ConvertUTF.h:65-67`; with the lenient one the
   value is to be replaced, and is). When the error does come back, `*sourceStart`
   is behind the value and does not "point to the illegal value that caused the
   problem" (`ConvertUTF.h:71-72`). `ResultTruthful` says what is left: only such a
   value may be behind a `sourceIllegal`.

Other disagreements between `SimpleIni.h` and its comments came up while it was
modelled. The model follows the code in each, and no run is spent on them:

* `SimpleIni.h:1570`: a header without a `]` is not skipped ("if it's an invalid
  line, just skip it", 1575). Its name becomes the section of the keys behind it,
  and as no NUL is written it runs on, over further lines, to the next one
  (`SkipHeader`, `RunsOn`).
* `SimpleIni.h:1998`: after `SetMultiKey(false)` the value of a key that was loaded
  twice is the first one, not the last, though the mode "may be changed at any
  time" (505-507).
* `SimpleIni.h:2264`: in the same state `GetSectionSize` counts values and not keys.
  Its comment allows that "if multiple keys are enabled" (817-818), when it does
  not happen.
* `SimpleIni.h:2599`: a string that `GetValue` returned is freed by `Delete` and by
  a forced `SetValue`; the comment names destruction and `Reset` only (852-854).
* `SimpleIni.h:1945`: a forced `SetValue` frees the entries of the key before it
  copies the name and the value (1956, 1961), which may be theirs (`Found`, with
  `FromTable`). `Delete` with a name that is the table's own reads it after it was
  freed in the same way.

One limit that no document contradicts: `Disconnect` of a TLS socket writes
`close_notify` and, without a send timeout, may wait on a full window for a peer
that does not read (`TLSDisconnectReturns` has the timeout as its condition).

### Bounds

* `conn_errors`: the client sends, the server receives. Sizes 0, 2 and 4 with
  `IntMax = 2` give an empty call, one that fits an `int` and one that does not;
  `Window = 2` and `MaxRW = 2` make sends partial and split messages in every way;
  `MaxStream = 4` bytes allow a second message after a first one failed.
* `live_parts`, the connection: messages of two bytes through a window of one, so that every Send
  blocks midway, with both sides sending at once.
* `client_fds`: a TLS client, a plain client and another holder on two
  descriptors, two contexts and up to two addresses: numbers run out, and every
  closed number can be taken by each of the others before its former owner's
  next step. The second context shows what happens after the first has leaked,
  and what happens when none is to be had.
* `safe_parts`, the servers: two servers, two peers, three descriptors: both servers listen
  and one connection fits, so `accept()` meets EMFILE with a connection waiting.
* `live_parts`, the TLS server: one server, two `SSLSocket`s, two peers, three descriptors and two
  contexts: both structures in use, moves into a freed one, a leaked context, and
  a third descriptor that is not there.
* `tls_stream`: the client sends, the server receives. Sizes 1, 3 and 9 with
  `IntMax = 3`: 9 becomes an `int` of 1, and the second `SSL_write` a count of 0.
  `MaxRecord = 2` and `Window = 2` cut a message of 3 into two records and stop a
  sender inside either; `MaxStream = 4` leaves room for a Send after an
  interrupted one.
* `safe_parts`, the table: two calls that add to it, in any order with deletions,
  saves, resets and changes of the mode, starting from four files, with comments,
  tags and headers without an end; a saved file may be loaded once more than
  `MaxCalls` says, so that the round trip of a table of two calls is seen. The
  application names one key, the files have two. `FromTable` is `FALSE`, which
  `KeepsDocument` needs; that `StringsLive` holds with `TRUE` too is a theorem.
* `safe_parts`, the conversions: all texts of up to three units at the boundaries the
  code compares with, the four-byte sequences at theirs, and buffers of 0 to 4
  units, fewer than a character may need.

`CHECK_DEADLOCK FALSE` in `conn_*`, `tls_stream`, `utf8_illegal` and the runs of
several parts: both ends of a connection may have stopped for good, a caller may
have no one to wait for, and a conversion ends. That a `Listen` is not stuck is
`ListenReturns`.

### Fairness

* `Connection`: a system call of a running `Send` or `Receive` that can return
  does return, and the network delivers what was sent. Nothing forces the
  application to call, a timeout to be set, or a peer to read. A timeout that
  was set runs out, being such a return.
* `TLSStream`: the same for the steps of `SSL_write`, `SSL_read` and
  `SSL_shutdown`, and a reset that answers what was sent to a closed end arrives.
* `TCPClient`: each system call of a running `Connect` returns, with success or
  failure (the kernel's own limits bound `connect()`).
* `TCPServer`: the same for `Listen`, but `accept()` and a `select()` without
  timeout return only when there is a connection, and a failure without cause
  (EINTR) is possible and never due. No fairness is assumed of peers.
* `TCPSSLClient` and `TCPSSLServer` add none: `SSL_connect` and `SSL_accept` may
  wait for their peer for good, so `ConnectReturns` and `ListenReturns` are about
  the TCP part.

## What is proved

TLAPS checks the following for every value of the constants that satisfies the
named assumptions (natural sizes, `MaxRW` at most `IntMax`, disjoint clients and
others, and the like).

*Connection* (`ConnectionProofs`): every invariant of `conn_errors`, and
`StreamInOrder`. Four inductive invariants, each on top of the one before:

1. `LoopInv`: types; no more bytes read than arrived, none arrived that were not
   sent; inside a loop `total` is in `0..uSize-1`, and a sending side's stream is
   exactly `total` longer than at the entry. Overflow is harmless here because a
   wrapped sum is negative, which as a `size_t` ends the loop; without
   `SizeLess`'s conversion it would not be inductive.
2. `SendInv` adds that position k of a stream holds byte k and that a result
   still describes the stream it was computed from.
3. `ReceiveInv` adds, inside the loop, that the filled part of the buffer is an
   increasing run of the bytes taken since the entry, with one byte of the count
   lost for each failed call; and what remains of this at the return.
4. `GoneInv` adds that a reset comes only from a closed end and that a short
   result stays explained by the peer's end. `ShortMeansClosed` follows: the step
   that makes a result short is `RecvEof` (`ShortComesFromEof`).

`ConnectionIsPipe` is the refinement of `BytePipe`: under `LoopInv` every action
is a `Write`, a `Read`, a `Close` or a stutter of the pipe.

*TLSStream* (`TLSStreamProofs`): `TLSTypeOK`, `TLSReceiveReport` and
`QuietMeansCaughtUp`. The invariant `TLSInv` is about where the plaintext of a
direction is: what the session has opened, then its unfinished record, then the
units on the connection, then the interrupted `SSL_write`, are consecutive bytes
that begin after those taken (`FlowOK`); they are cut short only by a
reset, which comes from an end that is closed. A repeated `Send` goes on with the same records, and
`RestIsZero` is the arithmetic of a `uSize` above `INT_MAX`: what is left after
one `SSL_write` is zero as an `int`, so a second one never starts.

`TLSStreamIsPipe` is the refinement of `BytePipe` by the plaintext: what was written
is what the kernel took of the records (`Moved`), what was read is what `SSL_read`
returned, and the window is larger by `MaxRecord`. The `Write` of a pipe needs a
bound on what a session holds besides the window, which `TLSInv` does not give.
`PipeInv` adds it: while a side may still send, the units that its peer has to
read, wherever they are, are cut into records (`InRecords`: one ends among any
`MaxRecord` in a row, counting those of the unfinished record, and with the last);
and a session never has more than was sent, even when a reset has dropped units
(`SentOK`), which is what `Read` needs. The bound is tight: TLC finds a step
that breaks it with a window one smaller.

*TCPClient* (`ClientProofs`): `TypeOK`, `HoldsWhatItNeeds`, `AddrInfoFreed`,
`ConnectReport`, and, assuming `CarefulCaller`, `OthersUntouched`. The invariant
`HoldInv` adds to the properties that a running `Connect` has dropped the old
connection and that there is an address left while it has a descriptor. Each
action is one of three shapes (descriptors alone, one closed, one opened), and
each shape has a lemma.

*TCPServer* (`TCPServerProofs`): `TypeOK`, `DescriptorsAccounted`, `ListenReport`
and `NoConnectionLost` from `ServerInv`, which adds what each program counter of
`Listen` knows of the listening descriptor. `KeepsItsPort` follows from it too:
a server that has a socket past `bind()` has a bound one, and the kernel changes
what a socket is bound to only when it is closed or by `listen()` on one that is
not bound.

*TCPSSLClient* (`ClientProofs`): `SSLSpec => Spec`, the TLS client is a
`CTCPClient`, from which all of `TCPClient`'s theorems follow; `SSLClientTypeOK`,
`SessionsAccounted`, `StatusTruthful` and `ContextsFreed`, with no assumption about
when the application connects. `SessionInv` adds that a pointer that is not null
is one to a live session, that two clients share no session and no context that
both would free, and that a context being put to use has no session yet
(`PtrsOK`). That a step leaves none behind is then shown step by step: what was
accounted for stays so (`AccountedStays`), but for the step that is named.

*TCPSSLServer* (`TCPSSLServerProofs`): with `CarefulApp`, `SSLSpec => Spec` (the
TLS server only closes descriptors that are the application's), `SlotsAccounted`,
`SessionsAccounted`, `ListenFills` and `ContextsFreed`, from `SlotInv`, which says
for each `SSLSocket` what it has at each step of the `Listen` it is in.

*SimpleIni* (`SimpleIniProofs`): `IniTypeOK` and `StringsLive`, for any files, names
and settings, and also when the strings passed to `SetValue` are the table's.
`IniInv` adds that the copied
strings, the block of the data and the block that is being loaded are different
allocations (`StringsOK`, `LoadOK`), and that nothing points into the latter when
its strings are copied out. Without that the end of a second load, which frees its
block, could leave entries that point there, and `StringsLive` would not be
inductive.
Below it are two facts about operators: `NewAllocation(n)` is an allocation
nobody uses, a different one for each n (`NewAllocationIsNew`), and `Sorted` lists
the entries of a set once each, in their order, `First` being its first
(`SortedIsSorted`, `SortedFirst`).

`IniKeepsDocument` is the refinement: with `~FromTable` (else the value that is
copied may be any), `IniSpec` implements `IniDocument`. The
table is a set of entries with load orders and the document a sequence of them
without, so each of the table's operations comes down to what `Sorted` makes of a set with
a later entry more (`SortedAppend`: it comes last), with one entry in place of
another of the same load order (`SortedReplace`: it takes its position) and with
fewer entries (`SortedSubset`: what is left keeps its order). `View` carries these
three over to what the document shows of an entry, `SectionPlace` and `EntryPlace`
say where sections and keys are in it, and each action has a lemma that names the
step of the document it is (`InsertKeyKept`, `UpdateKeyKept`, `ReplaceKeysKept`,
`DeleteValueKept`, and so on). `IniInv` is what it rests on: were load orders not
distinct, or given out anew, a new key would not come last. `IniAssumption`
says that names and lines are strings and `NULL` is none of the records it stands
in for.

`IniRoundTrip` (`RoundTripProofs`) is `IniSpec => []RoundTrip`: a table that a file
can hold (`Saveable`), saved and loaded into an empty object, is saved as the same
file again. `RoundTrip` speaks of the end of a load only, so `RoundTripInv` says
what holds in the middle of one, and has three layers:

1. *What is written.* `SavedText` is made of flattened sequences, of which
   `FlattenSteps` gives the equations. `SavedWritten` shows it to be the lines of the
   file comment and behind them *pieces*: a header or an entry, its blank lines
   and its comment before it (`Piece`). A *position* (`Positions`) is the text up to
   a piece with what decides what comes next, such as the sections and the keys of the
   section that were written; a `Path` leads from the file comment to
   the last one.
2. *What is read.* While such a file is loaded, `ReadingNow` says that there is a
   position at which the table and file comment built so far are saved as the text
   before it (`Matches`), and that the data is what is left of the next piece
   (`InPiece`). `SkipLine` and `ReadComment` go on inside the piece; `SkipHeader`
   meets no line in such a file; `ReadHeader`, `ReadKey` and `ReadMultiLine` go on to
   the next position, since saving a table with one more section or entry, of the
   highest load order, appends just that piece (`SectionRead`, `EntryInSection`,
   `EntryInFirst`); `LoadEnd` finds no piece left.
3. *What is between them.* `CommentsOK` says that comments in the table are comments
   a file can hold: those that are loaded are, those of `SetValue` by
   `CommentsAssumption`, that a comment is in the form its documentation asks for
   (`SimpleIni.h:952-955`, asserted at 1888).

`RoundTripInv` quantifies over all files in `Written`, so TLC checks `RoundTrip`
(in `safe_parts`) and not the invariant. Inductions over paths and over the entries of a set rest
on `SetInduction`, about a set of numbers, since those of the library take an operator.

*ConvertUTF* (`ConvertUTFProofs`): `ConvertTypeOK`, `SameText` and
`ResultTruthful`, for texts of any length, buffers of any sizes and a caller that
goes on as often as it likes. The argument has three layers:

1. The reference decoder is a function defined by recursion over positions
   (`Decoded`). `Unroll` and `DecodedIs` give its equation, and
   `DecodedSnoc` what every step needs: if no character of `u` goes on in `h`
   (`Joins`), and `h` is one character, the code points of `u \o h` are those of
   `u` and that one. It rests on `HeadStable`: what comes behind a
   character does not change how it reads.
2. What the code writes reads back: `UTF8BytesRead` and `InUTF8`, `InUTF16`,
   `InUTF32` for the encoders, and `PassedValue`, `PassedRead` and `ScalarPasses`
   for `isLegalUTF8` against Unicode's table. What it lets pass is a
   code point that is no surrogate and not above 10FFFF, and it lets every such one
   pass; it is read as the reference reads it unless the byte behind ED or F4
   continues nothing (finding 5).
3. `ConvertInv` adds to the properties that neither the target written nor the
   source consumed ends inside a character (`TargetOK`, `SourceOK`), that under the
   strict flag the source consumed is well-formed (`StrictOK`), and that a loop
   that still runs has the result `conversionOK`, or has skipped a code point
   above 10FFFF (`ResultOK`). `SameText` alone is not inductive: a target that ends in
   a high surrogate would read otherwise after the next unit. Each step of the six
   loops is `PutInv` (a character arrives) or `BreakInv` (the call stops).

`ConvertAssumption` says that units fit the C types of `ConvertUTF.h:90-92`, of
which that of UTF-32 is taken to have no bound.

`StreamInOrder`, `AddrInfoFreed`, `ConnectReport` and `ListenFills` have theorems
and no line of their own in a configuration (`ConnectReport` is a part of
`StatusTruthful`).

Only model-checked: the liveness properties, since fairness and ENABLED are out
of the prover's reach. Every invariant and every action property without fairness
that a passing run checks has a theorem.

## What is not modelled

* `SelectSockets`, which nothing in the library or its tests calls and which
  promises nothing about the sockets late in its array, and `TimevalFromMsec`.
* In `TLSStream`: what OpenSSL exchanges after the handshake on its own account
  (session tickets, key updates, renegotiation), and corrupted records. The
  handshake itself succeeds or fails.
* In `TCPSSLClient` and `TCPSSLServer`: `SSL_new` returning null, which neither class
  checks (`TCPSSLClient.cpp:105`, `TCPSSLServer.cpp:106`); the next call would use it.
  And an application that sends on a TLS client whose `Connect` returned false: the
  object is connected as far as `Send` can see (`TCPSSLClient.cpp:157`).
* In `TCPSSLServer`: an application that disconnects a structure twice
  (`CarefulApp`); the number in it may be another connection's by then.
* In `SimpleIni`: white space beyond what a value's own edges show, newline
  formats, the byte order mark and encodings; the numeric and Boolean `Get` and
  `Set` calls; `SI_ConvertW` and `SI_ConvertA`; paths of exhausted memory. An empty
  block of a multi-line value (`SimpleIni.h:1825`) is left out: what it reads
  depends on the bytes behind it in the buffer. `Delete` is given strings of the
  application (what happens with others is among the disagreements above), and what a copy of a freed
  string reads is one of the texts there are. `RoundTrip` is about tables a file
  can hold (`Saveable`): a key without a name is not read again, a value that
  begins with `<<<` is read as a tag when multi-line values are on, a name that
  runs on over several lines ends at another place, and a section without a name
  saved after one with a name comes back as part of that one.
* Windows branches; logging and formatting; `FD_SET` of descriptors beyond
  `FD_SETSIZE`; name resolution beyond success and failure; IPv6; the contents and
  the wire format of messages. The setters are atomic, and setting a timeout is
  assumed to succeed on an open descriptor.
* Tests and build files are read as documentation of intent.

## What is left

1. `TLSStream` has its own queue of units. Writing it over an instance of `BytePipe`
   would say in the module, and not in a comment, that it needs no more of the
   connection below than `Connection` implements.
2. `SelectSockets` against a reference definition, should something come to use it.
3. Several connections of one application that polls them in turn, with
   `HasPending`, as one module over `TLSStream`.
