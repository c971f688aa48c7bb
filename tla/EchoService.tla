---------------------------- MODULE EchoService -----------------------------
(***************************************************************************)
(* What an echo server promises the client of one connection, whatever its *)
(* buffering and flow control: it takes the client's bytes in and gives     *)
(* the same number back, invents none and loses none, keeps serving while *)
(* there is something to take or give, and closes the connection either   *)
(* cleanly, once the client has shut down and every byte has been given    *)
(* back, or by a failure (a timeout or a reset) that drops what it holds.  *)
(* SslResponder is shown to implement it.                                  *)
(***************************************************************************)
EXTENDS Naturals

CONSTANT Data   \* bytes the client sends before shutting down its side

VARIABLES
  sent,    \* bytes the client has sent
  eof,     \* the client has shut down its sending side
  c2s,     \* bytes on the way to the server
  held,    \* bytes the server has taken in and not yet given back
  s2c,     \* bytes on the way back to the client
  got,     \* bytes the client has received back
  open,    \* the server still serves the connection
  failed   \* the connection was closed by a failure

vars == <<sent, eof, c2s, held, s2c, got, open, failed>>

Init ==
  /\ sent = 0 /\ eof = FALSE /\ c2s = 0 /\ held = 0 /\ s2c = 0 /\ got = 0
  /\ open = TRUE /\ failed = FALSE

\* The server takes n bytes in and gives k back; it may close in the same
\* step once nothing more can come and nothing is left to give.
Serve ==
  /\ open
  /\ \E n \in 0 .. c2s, k \in 0 .. held + c2s :
       /\ k <= held + n
       /\ c2s' = c2s - n /\ held' = held + n - k /\ s2c' = s2c + k
       /\ open' \in IF eof /\ c2s' = 0 /\ held' = 0 THEN BOOLEAN ELSE {TRUE}
  /\ UNCHANGED <<sent, eof, got, failed>>

\* A timeout or reset: the connection is closed and what it held is lost.
Fail ==
  /\ open
  /\ open' = FALSE /\ failed' = TRUE /\ held' = 0
  /\ UNCHANGED <<sent, eof, c2s, s2c, got>>

Send ==
  /\ ~eof /\ sent < Data
  /\ sent' = sent + 1 /\ c2s' = c2s + 1
  /\ UNCHANGED <<eof, held, s2c, got, open, failed>>

Shutdown ==
  /\ ~eof /\ sent = Data
  /\ eof' = TRUE
  /\ UNCHANGED <<sent, c2s, held, s2c, got, open, failed>>

Receive ==
  /\ s2c > 0
  /\ s2c' = s2c - 1 /\ got' = got + 1
  /\ UNCHANGED <<sent, eof, c2s, held, open, failed>>

Next == Serve \/ Fail \/ Send \/ Shutdown \/ Receive

\* The server keeps serving; failures need not happen.
Spec ==
  /\ Init /\ [][Next]_vars
  /\ WF_vars(Serve) /\ WF_vars(Send) /\ WF_vars(Shutdown) /\ WF_vars(Receive)
=============================================================================
