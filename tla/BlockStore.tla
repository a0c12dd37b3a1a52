----------------------------- MODULE BlockStore -----------------------------
(***************************************************************************)
(* What IOS-FS relies on when it does block I/O on SLC and SLCCMPT: each is  *)
(* a device of its own, a request takes effect at one moment between its     *)
(* call and its answer, a failed write harms only the blocks it was for, and *)
(* every thread gets the answer to its own request. A request that brings a  *)
(* callback learns how it ended; one without may have failed unnoticed.      *)
(***************************************************************************)
CONSTANTS Threads, Devices, Blocks, Contents, Requests,
          Span(_)   \* Span(r): the blocks of request r

VARIABLES store,   \* store[d][b]: the content of block b of device d
          op       \* op[t]: what t has asked for, and the answer

vars == <<store, op>>

NoOp == [phase |-> "idle"]
Open(r) == [phase |-> "open", req |-> r]
Done(r, result, data) == [phase |-> "done", req |-> r, result |-> result, data |-> data]

Init ==
  /\ store \in [Devices -> [Blocks -> Contents]]
  /\ op = [t \in Threads |-> NoOp]

Invoke(t) ==
  /\ op[t] = NoOp
  /\ \E r \in Requests : op' = [op EXCEPT ![t] = Open(r)]
  /\ UNCHANGED store

\* only the blocks of request r may differ
OnlySpan(r) ==
  \A d \in Devices, b \in Blocks :
    (d # r.dev \/ b \notin Span(r)) => store'[d][b] = store[d][b]

Answer(t, r, result, data) ==
  /\ op[t] = Open(r)
  /\ op' = [op EXCEPT ![t] = Done(r, result, data)]

Read(t, r) ==
  /\ Answer(t, r, "ok", [b \in Span(r) |-> store[r.dev][b]])
  /\ r.op = "read"
  /\ UNCHANGED store

Write(t, r) ==
  /\ Answer(t, r, "ok", << >>)
  /\ r.op = "write"
  /\ OnlySpan(r)
  /\ \A b \in Span(r) : store'[r.dev][b] = r.val

Fail(t, r) ==
  /\ \/ Answer(t, r, "error", << >>)
     \/ ~r.cb /\ Answer(t, r, "ok", << >>)
  /\ OnlySpan(r)
  /\ r.op = "read" => UNCHANGED store

Return(t) ==
  /\ op[t] # NoOp
  /\ op[t].phase = "done"
  /\ op' = [op EXCEPT ![t] = NoOp]
  /\ UNCHANGED store

Next ==
  \E t \in Threads :
    \/ Invoke(t)
    \/ \E r \in Requests : Read(t, r) \/ Write(t, r) \/ Fail(t, r)
    \/ Return(t)

Spec == Init /\ [][Next]_vars
=============================================================================
