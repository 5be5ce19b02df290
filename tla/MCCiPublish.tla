---------------------------- MODULE MCCiPublish -----------------------------
(***************************************************************************)
(* Settings of CiPublish for TLC.                                          *)
(***************************************************************************)
EXTENDS CiPublish

Default == [failOn |-> "block", comment |-> TRUE, checkRun |-> TRUE]

MCConfigs ==
    { Default,
      [Default EXCEPT !.failOn = "requires_approval", !.checkRun = FALSE],
      [Default EXCEPT !.failOn = "never", !.comment = FALSE] }
=============================================================================
