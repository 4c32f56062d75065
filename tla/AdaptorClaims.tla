---------------------------- MODULE AdaptorClaims ----------------------------
(***************************************************************************)
(* What the README says of the output adapter, without the exceptions that *)
(* the properties of BorderOutputAdaptor make.  TLC finds a behaviour of   *)
(* the code that contradicts each of them.                                 *)
(***************************************************************************)
EXTENDS MCBorderOutputAdaptor

(***************************************************************************)
(* "The adapter completes when the queue pop task completely empties both  *)
(* the queues" (README.md:29): it completes, whatever order the push tasks *)
(* call notify in.  Two calls that overlap may lose an addition to         *)
(* nEnqProcs or bprocessedPackets; the adaptor then waits for ever.        *)
(***************************************************************************)
AlwaysCompletes == (adPc = "startEnq") ~> (adPc \in {"done", "killed"})

(***************************************************************************)
(* "Logs the number of packets , total packets processed." (README.md:28): *)
(* the total that is kept when the adaptor completes is the number of      *)
(* packets it processed.  It is read before the comparison that ends the   *)
(* loop, and the pop task may count packets in between.                    *)
(***************************************************************************)
TotalIsExact ==
  adPc = "done" /\ ~ raced =>
    processedPackets = SumFunction([q \in QIds |-> Len(offered[q])])
=============================================================================
