-------------------------- MODULE MCRtpReceivers ----------------------------
(* Three receivers, the string of one being the beginning of another's. *)
EXTENDS RtpReceivers, TLC

MCAddrs == {"10.0.0.1", "10.0.0.12", "10.0.0.3"}
MCWithin == {<<"10.0.0.1", "10.0.0.12">>}

\* The calls are interchangeable.
MCSymmetry == Permutations(Calls)
=============================================================================
