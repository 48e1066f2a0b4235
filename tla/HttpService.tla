----------------------------- MODULE HttpService -----------------------------
(***************************************************************************)
(* What the web server promises its clients, whatever its threads do: a    *)
(* connection gets at most one answer, one the documented dispatch rule    *)
(* permits for its request, and none once the process has stopped.         *)
(***************************************************************************)
CONSTANTS
  Conn,      \* connections
  Message,   \* what a client may send
  Permitted  \* Permitted[m]: the answers message m may get

VARIABLES
  up,        \* the process runs
  message,   \* what each client sends
  phase,     \* "away", "waiting", "answered" or "refused"
  answer     \* set of answers sent on each connection

vars == <<up, message, phase, answer>>

Init ==
  /\ up = TRUE
  /\ message \in [Conn -> Message]
  /\ phase = [c \in Conn |-> "away"]
  /\ answer = [c \in Conn |-> {}]

Connect(c) ==
  /\ up /\ phase[c] = "away"
  /\ phase' = [phase EXCEPT ![c] = "waiting"]
  /\ UNCHANGED <<up, message, answer>>

Reply(c) ==
  /\ up /\ phase[c] = "waiting"
  /\ \E a \in Permitted[message[c]] : answer' = [answer EXCEPT ![c] = {a}]
  /\ phase' = [phase EXCEPT ![c] = "answered"]
  /\ UNCHANGED <<up, message>>

Refuse(c) ==
  /\ up /\ phase[c] = "waiting"
  /\ phase' = [phase EXCEPT ![c] = "refused"]
  /\ UNCHANGED <<up, message, answer>>

\* Every connection still waiting when the process stops is refused.
Stop ==
  /\ up /\ up' = FALSE
  /\ phase' = [c \in Conn |-> IF phase[c] = "waiting" THEN "refused" ELSE phase[c]]
  /\ UNCHANGED <<message, answer>>

Next == Stop \/ \E c \in Conn : Connect(c) \/ Reply(c) \/ Refuse(c)

Spec == Init /\ [][Next]_vars
=============================================================================
