-------------------------------- MODULE Rpc --------------------------------
(***************************************************************************)
(* What a resource manager of IOSU promises: a client that has called waits  *)
(* until it gets one answer, the answer is one its request may have, and     *)
(* when it is not an error, what the request asked for has been done.        *)
(***************************************************************************)
CONSTANTS
  Clients,
  Requests,    \* Requests[c]: what client c may ask for
  Answers(_),  \* Answers(r): the results of request r
  Errors,      \* the results that say it was refused
  None         \* no request: the client is not waiting

VARIABLES
  waiting,     \* waiting[c]: the request client c waits for
  result,      \* result[c]: the answer to c's last call
  done         \* the requests that ask for nothing but what is the case

Init ==
  /\ waiting = [c \in Clients |-> None]
  /\ result = [c \in Clients |-> None]

Call(c) ==
  /\ waiting[c] = None
  /\ \E r \in Requests[c] : waiting' = [waiting EXCEPT ![c] = r]
  /\ result' = [result EXCEPT ![c] = None]

Return(c) ==
  /\ waiting[c] # None
  /\ \E x \in Answers(waiting[c]) :
       /\ x \notin Errors => waiting[c] \in done
       /\ result' = [result EXCEPT ![c] = x]
  /\ waiting' = [waiting EXCEPT ![c] = None]

\* what is the case changes, whoever does it
Work == UNCHANGED <<waiting, result>>

Next == Work \/ \E c \in Clients : Call(c) \/ Return(c)
Spec == Init /\ [][Next]_<<waiting, result, done>>
=============================================================================
