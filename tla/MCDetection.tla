---------------------------- MODULE MCDetection ----------------------------
(* Instances of Detection for TLC. *)
EXTENDS Detection, TLC

CONSTANTS Pod, Deployment, Secret, OOM, Pending, pod1

TheKinds == pod1 :> Pod

\* A policy may change its kind, trigger, expression and validity; the last two
\* are rejected, one for its kind and one for its expression.
TheSpecs ==
    {[kind |-> Pod, expr |-> "failing", trigger |-> OOM],
     [kind |-> Pod, expr |-> "failing", trigger |-> Pending],
     [kind |-> Pod, expr |-> "faulty", trigger |-> OOM],
     [kind |-> Deployment, expr |-> "failing", trigger |-> OOM],
     [kind |-> Secret, expr |-> "failing", trigger |-> OOM],
     [kind |-> Pod, expr |-> "garbage", trigger |-> OOM]}
=============================================================================
