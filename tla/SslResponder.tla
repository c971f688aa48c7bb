---------------------------- MODULE SslResponder ----------------------------
(***************************************************************************)
(* The echo server of the SSL filter test (SslFilterTest::Responder in     *)
(* src/cc/devtools/sslfiltertest_main.cc), serving one accepted connection *)
(* whose client is modelled as its environment.                            *)
(*                                                                         *)
(* EventHandler runs for every event of the connection: it echoes what it *)
(* read, closes on the client's EOF once its writes have drained, and, at *)
(* recursion depth 1, flushes, throttles reading while more than           *)
(* mMaxWriteBehind bytes wait to be written, and deletes itself once the   *)
(* connection is closed.  StartFlush may write at once and call the        *)
(* handler back (EVENT_NET_WROTE at depth 2), which is why the depth is    *)
(* counted.  Bytes are counted in units; the SSL record layer is below the *)
(* connection's buffers and is not modelled.                               *)
(***************************************************************************)
EXTENDS Naturals

CONSTANTS
  Data,            \* bytes the client sends before shutting down its side
  MaxReadAhead,    \* mMaxReadAhead: bytes one read may take in
  MaxWriteBehind   \* mMaxWriteBehind: write backlog above which reads stop

ASSUME Data \in Nat /\ MaxReadAhead \in Nat \ {0} /\ MaxWriteBehind \in Nat

VARIABLES
  r,        \* the Responder and its connection: IsGood, read-ahead on,
            \* bytes to write, mCloseConnectionFlag, deleted
  sent,     \* bytes the client has sent
  eof,      \* the client has shut down its sending side
  c2s,      \* bytes on the way to the server
  s2c,      \* bytes on the way back to the client
  got,      \* bytes the client has received back
  aborted   \* history: a timeout or a reset closed the connection

vars == <<r, sent, eof, c2s, s2c, got, aborted>>

MinOf(a, b) == IF a <= b THEN a ELSE b

IsWriteReady(s) == s.toWrite > 0
IsReadReady(s) == s.readAhead

\* NetConnection::HasPendingRead: received bytes not yet consumed.
HasPendingRead == c2s > 0

IsOverWriteBehindLimit(s) == s.toWrite > MaxWriteBehind

\* NetConnection::Close: the socket is closed and unsent data dropped.
Close(s) == [s EXCEPT !.good = FALSE, !.readAhead = FALSE, !.toWrite = 0]

OnWroteNoClose(s) == s

\* EVENT_NET_WROTE: close once the backlog is gone if a close is pending.
OnWrote(s) == IF s.closeFlag /\ ~IsWriteReady(s) THEN Close(s) ELSE s

\* EVENT_NET_ERROR: stop reading; with data still to write on a good
\* connection, only mark the close, else fall through to the close of
\* EVENT_INACTIVITY_TIMEOUT.
OnError(s) ==
  LET s1 == [s EXCEPT !.readAhead = FALSE] IN
  IF s1.good /\ IsWriteReady(s1)
    THEN [s1 EXCEPT !.closeFlag = s1.closeFlag \/ ~HasPendingRead]
    ELSE Close(s1)

\* NetConnection::StartFlush: how many bytes it may write at once, and the
\* nested EVENT_NET_WROTE handler run (depth 2: the body only) if it did.
FlushAmounts(s) == IF s.good THEN 0 .. s.toWrite ELSE {0}
StartFlushNoConsume(s, k) == IF k = 0 THEN s ELSE OnWrote(s)
StartFlush(s, k) ==
  IF k = 0 THEN s ELSE OnWrote([s EXCEPT !.toWrite = @ - k])

\* The read-ahead rule of the depth-1 tail.
ThrottleReadNoResume(s) ==
  IF IsReadReady(s)
    THEN IF IsOverWriteBehindLimit(s) THEN [s EXCEPT !.readAhead = FALSE] ELSE s
    ELSE s
ThrottleReadNoLimit(s) ==
  IF IsReadReady(s) THEN s
  ELSE IF ~s.closeFlag /\ ~IsOverWriteBehindLimit(s)
         THEN [s EXCEPT !.readAhead = TRUE] ELSE s
ThrottleRead(s) ==
  IF IsReadReady(s)
    THEN IF IsOverWriteBehindLimit(s) THEN [s EXCEPT !.readAhead = FALSE] ELSE s
    ELSE IF ~s.closeFlag /\ ~IsOverWriteBehindLimit(s)
           THEN [s EXCEPT !.readAhead = TRUE] ELSE s

\* The rest of the depth-1 tail after StartFlush: on a good connection
\* adjust reading, else delete this.
AfterFlush(s) == IF s.good THEN ThrottleRead(s) ELSE [s EXCEPT !.deleted = TRUE]

\* EventHandler at depth 1 after its event's body left the Responder in
\* state s, w bytes having been written by the event itself.
EventTail(s, w) ==
  \E k \in FlushAmounts(s) :
    /\ r' = AfterFlush(StartFlush(s, k))
    /\ s2c' = s2c + w + k

Init ==
  /\ r = [good |-> TRUE, readAhead |-> TRUE, toWrite |-> 0,
          closeFlag |-> FALSE, deleted |-> FALSE]
  /\ sent = 0 /\ eof = FALSE /\ c2s = 0 /\ s2c = 0 /\ got = 0
  /\ aborted = FALSE

Live == ~r.deleted /\ r.good
-----------------------------------------------------------------------------
(* Events of the connection.                                               *)

ReadNoEcho ==
  /\ Live /\ IsReadReady(r) /\ c2s > 0
  /\ \E n \in 1 .. MinOf(c2s, MaxReadAhead) :
       /\ c2s' = c2s - n
       /\ EventTail(r, 0)
  /\ UNCHANGED <<sent, eof, got, aborted>>

\* EVENT_NET_READ: echo the bytes read by writing them back.
Read ==
  /\ Live /\ IsReadReady(r) /\ c2s > 0
  /\ \E n \in 1 .. MinOf(c2s, MaxReadAhead) :
       /\ c2s' = c2s - n
       /\ EventTail([r EXCEPT !.toWrite = @ + n], 0)
  /\ UNCHANGED <<sent, eof, got, aborted>>

\* The socket took k bytes of the backlog: EVENT_NET_WROTE.
Wrote ==
  /\ Live /\ IsWriteReady(r)
  /\ \E k \in 1 .. r.toWrite :
       EventTail(OnWrote([r EXCEPT !.toWrite = @ - k]), k)
  /\ UNCHANGED <<sent, eof, c2s, got, aborted>>

\* The read that finds the client's shutdown, once every earlier byte was
\* read: EVENT_NET_ERROR on a good connection.
PeerClosed ==
  /\ Live /\ IsReadReady(r) /\ eof /\ c2s = 0
  /\ EventTail(OnError(r), 0)
  /\ UNCHANGED <<sent, eof, c2s, got, aborted>>

\* A client that closed its socket altogether: while reading is stopped the
\* poll still reports the hangup as EVENT_NET_ERROR on a good connection,
\* possibly with the client's last bytes unread (HasPendingRead), so the
\* close is not marked and reading resumes.  It need not happen.
PeerHangup ==
  /\ Live /\ ~IsReadReady(r) /\ eof
  /\ EventTail(OnError(r), 0)
  /\ UNCHANGED <<sent, eof, c2s, got, aborted>>

\* EVENT_INACTIVITY_TIMEOUT, or EVENT_NET_ERROR on a connection that broke
\* (the fall-through): close and clear the input.
Abort ==
  /\ Live
  /\ EventTail(Close(r), 0)
  /\ aborted' = TRUE
  /\ UNCHANGED <<sent, eof, c2s, got>>

(* The client.                                                             *)
ClientSend ==
  /\ ~eof /\ sent < Data
  /\ sent' = sent + 1 /\ c2s' = c2s + 1
  /\ UNCHANGED <<r, eof, s2c, got, aborted>>

ClientShutdown ==
  /\ ~eof /\ sent = Data
  /\ eof' = TRUE
  /\ UNCHANGED <<r, sent, c2s, s2c, got, aborted>>

ClientReceive ==
  /\ s2c > 0
  /\ s2c' = s2c - 1 /\ got' = got + 1
  /\ UNCHANGED <<r, sent, eof, c2s, aborted>>

Next ==
  \/ Read \/ Wrote \/ PeerClosed \/ PeerHangup \/ Abort
  \/ ClientSend \/ ClientShutdown \/ ClientReceive

\* The network loop delivers every enabled event and the client keeps
\* sending and reading; timeouts, resets and hangups need not happen.
Fairness ==
  /\ WF_vars(Read) /\ WF_vars(Wrote) /\ WF_vars(PeerClosed)
  /\ WF_vars(ClientSend) /\ WF_vars(ClientShutdown) /\ WF_vars(ClientReceive)

Spec == Init /\ [][Next]_vars /\ Fairness

-----------------------------------------------------------------------------
(* Properties.                                                              *)

TypeOK ==
  /\ r \in [good : BOOLEAN, readAhead : BOOLEAN, toWrite : Nat,
            closeFlag : BOOLEAN, deleted : BOOLEAN]
  /\ sent \in 0 .. Data /\ eof \in BOOLEAN /\ aborted \in BOOLEAN
  /\ c2s + s2c + got + r.toWrite <= Data

\* The read-ahead throttle of EventHandler keeps the Responder's write
\* backlog within one read of mMaxWriteBehind, however slowly the client
\* takes the echo back.
BoundedWriteBehind == r.toWrite <= MaxWriteBehind + MaxReadAhead

\* Unless a timeout or reset intervenes, the client gets its whole echo
\* back: reading resumes once the backlog has drained.
EchoCompletes == <>(got = Data \/ aborted)

\* The Responder eventually closes the connection and deletes itself.
ResponderReleased == <>(r.deleted)

\* The Responder implements the echo service: its write backlog is what the
\* service holds, the connection is open until the Responder deletes
\* itself, and a timeout or reset is the service's failure.
Echo == INSTANCE EchoService WITH held <- r.toWrite, open <- ~r.deleted,
                                  failed <- aborted

\* Every behaviour of EventHandler and the client is one of the echo
\* service: no byte is lost or invented, a clean close comes only after the
\* whole echo was given back, and the Responder keeps serving.
ImplementsEchoService == Echo!Spec
=============================================================================
