---------------------------- MODULE MCLiveParts ----------------------------
(* Two parts that share nothing, each in behaviours of its own while the   *)
(* other stays as it began: a TLS server with two SSLSockets, and a        *)
(* connection both ends of which send into a window of one byte.           *)
EXTENDS MCTCPSSLServer

VARIABLES ends, link, stream, arr, rd, connPc, call, total, buf, failed, timeo,
          asked, polled, connRet,  \* those of Connection
          part                     \* the part this behaviour is of

connVars == <<ends, link, stream, arr, rd, connPc, call, total, buf, failed, timeo,
              asked, polled, connRet>>
partVars == <<allVars, connVars, part>>

Ends == {"client", "server"}
\* every send timeout setter but the one that sets the other option
SendTimeouts == {[side |-> "client", opt |-> "snd", unit |-> "msec"],
                 [side |-> "client", opt |-> "snd", unit |-> "timeval"],
                 [side |-> "server", opt |-> "snd", unit |-> "timeval"]}

Conn ==
  INSTANCE Connection WITH
    Sizes <- {2}, Modes <- BOOLEAN, Senders <- Ends, Receivers <- {"server"},
    Closers <- Ends, TimeoutCalls <- SendTimeouts, Window <- 1, MaxRW <- 1,
    IntMax <- 2, MaxStream <- 2, pc <- connPc, ret <- connRet

PartsInit == part \in {"server", "connection"} /\ SSLServerInit /\ Conn!Init

PartsNext ==
  \/ part = "server" /\ SSLNext /\ UNCHANGED <<connVars, part>>
  \/ part = "connection" /\ Conn!Next /\ UNCHANGED <<allVars, part>>

\* the fairness of both; that of a part that stays as it began asks for nothing
PartsSpec ==
  /\ PartsInit /\ [][PartsNext]_partVars
  /\ \A v \in Servers : WF_vars(ListenCanGoOn(v))
  /\ Conn!Fairness

\* A Send for which the application asked a timeout comes back, whatever the
\* peer does (Connection; TCPClient.cpp:298-317, README.md:120).
TimedSendReturns == Conn!TimedSendReturns

\* A Receive with bReadFully = false after a poll that found something to read
\* comes back (Connection; TCPClient.cpp:350-384, Socket.cpp:99-131).
PolledPartialReceiveReturns == Conn!PolledPartialReceiveReturns

\* A Receive without a timeout comes back once the peer's kernel has taken what
\* it wants or the peer is gone (Connection; TCPClient.cpp:350-384).
ReceiveReturns == Conn!ReceiveReturns
=============================================================================
