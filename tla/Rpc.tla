-------------------------------- MODULE Rpc --------------------------------
(***************************************************************************)
(* What a caller of send_event and push_event is promised, with no table,  *)
(* no sequence numbers, no tasks and no connection: a call is made once,   *)
(* it has at most one outcome, the outcome is final, and a send_event call *)
(* succeeds only when its own answer has reached the client.               *)
(***************************************************************************)
CONSTANTS
    SendCalls,    \* calls that await an answer (send_event)
    OneWayCalls   \* calls that do not (push_event)

Calls == SendCalls \cup OneWayCalls

VARIABLES
    status,    \* status of each call
    received   \* calls whose answer has reached the client

vars == <<status, received>>

Init ==
    /\ status = [c \in Calls |-> "idle"]
    /\ received = {}

Invoke(c) ==
    /\ status[c] = "idle"
    /\ status' = [status EXCEPT ![c] = "running"]
    /\ UNCHANGED received

(* The answer may also come after the caller has given up.                 *)
Receive(c) ==
    /\ status[c] # "idle"
    /\ c \notin received
    /\ received' = received \cup {c}
    /\ UNCHANGED status

Succeed(c) ==
    /\ status[c] = "running"
    /\ c \in SendCalls => c \in received
    /\ status' = [status EXCEPT ![c] = "ok"]
    /\ UNCHANGED received

(* An error is returned, or the future of the call is gone.                *)
GiveUp(c) ==
    /\ status[c] = "running"
    /\ status' = [status EXCEPT ![c] = "failed"]
    /\ UNCHANGED received

Next == \E c \in Calls : Invoke(c) \/ Receive(c) \/ Succeed(c) \/ GiveUp(c)

Spec == Init /\ [][Next]_vars

=============================================================================
