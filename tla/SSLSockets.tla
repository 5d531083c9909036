----------------------------- MODULE SSLSockets -----------------------------
(***************************************************************************)
(* ASecureSocket::SSLSocket, the structure that holds a descriptor and the *)
(* pointers to an OpenSSL context and session, with the OpenSSL heap of    *)
(* the process behind the pointers.  A session belongs to the context it   *)
(* was made from and has its number; 0 is the null pointer.  A context is  *)
(* live until SSL_CTX_free is called on it, a session until SSL_free is.   *)
(***************************************************************************)
EXTENDS Integers

CONSTANTS
  Slots,    \* the SSLSocket structures
  MaxCtx    \* bound: the contexts the heap has room for

ASSUME CtxAssumption == MaxCtx \in Nat

VARIABLES
  pSSL,     \* pSSL[s]: m_pSSL
  pCTX,     \* pCTX[s]: m_pCTXSSL, which may dangle
  ctxs,     \* the live contexts
  session   \* session[k]: the descriptor of k's session, -1 when there is none

sslVars == <<pSSL, pCTX, ctxs, session>>

Ctxs == 1..MaxCtx
NoSession == -1
Sessions == {k \in Ctxs : session[k] # NoSession}

SSLInit ==
  /\ pSSL = [s \in Slots |-> 0] /\ pCTX = [s \in Slots |-> 0]
  /\ ctxs = {} /\ session = [k \in Ctxs |-> NoSession]

SetPtr(p, s, k) == [p EXCEPT ![s] = k]

\* SSL_CTX_new; a session of its own may outlive a context
NewCtx(s) ==
  \E k \in Ctxs \ (ctxs \cup Sessions) :
    /\ \A j \in Ctxs \ (ctxs \cup Sessions) : k <= j
    /\ pCTX' = SetPtr(pCTX, s, k) /\ ctxs' = ctxs \cup {k}
    /\ UNCHANGED <<pSSL, session>>

NewCtxFails(s) == pCTX' = SetPtr(pCTX, s, 0) /\ UNCHANGED <<pSSL, ctxs, session>>

\* SSL_new and SSL_set_fd
NewSession(s, f) ==
  /\ pSSL' = SetPtr(pSSL, s, pCTX[s])
  /\ session' = [session EXCEPT ![pCTX[s]] = f]
  /\ UNCHANGED <<pCTX, ctxs>>

\* SSL_free and SSL_CTX_free, when there is a session; m_pCTXSSL is left
\* dangling
ShutdownSSL_KeepsCtx(s) ==
  IF pSSL[s] # 0
  THEN /\ session' = [session EXCEPT ![pSSL[s]] = NoSession]
       /\ pSSL' = SetPtr(pSSL, s, 0)
       /\ UNCHANGED <<pCTX, ctxs>>
  ELSE UNCHANGED sslVars
ShutdownSSL(s) ==
  IF pSSL[s] # 0
  THEN /\ session' = [session EXCEPT ![pSSL[s]] = NoSession]
       /\ ctxs' = ctxs \ {pCTX[s]}
       /\ pSSL' = SetPtr(pSSL, s, 0)
       /\ UNCHANGED pCTX
  ELSE UNCHANGED sslVars

\* the structure goes out of scope: there is no destructor
Forget(s) ==
  /\ pSSL' = SetPtr(pSSL, s, 0) /\ pCTX' = SetPtr(pCTX, s, 0)
  /\ UNCHANGED <<ctxs, session>>

SSLTypeOK ==
  /\ pSSL \in [Slots -> 0..MaxCtx] /\ pCTX \in [Slots -> 0..MaxCtx]
  /\ ctxs \subseteq Ctxs
=============================================================================
