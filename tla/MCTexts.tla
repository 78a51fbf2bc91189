------------------------------ MODULE MCTexts ------------------------------
(* Names and AgentConfig for TLC.  They share nothing, so a behaviour      *)
(* types refs or writes a file, not both.                                  *)
EXTENDS Names, AgentConfig

TextsInit == NamesInit /\ ConfigInit

TextsNext ==
  \/ lines = <<>> /\ Type /\ UNCHANGED lines
  \/ left = <<>> /\ right = <<>> /\ at = Whole /\ Write /\ UNCHANGED namesVars

TextsSpec == TextsInit /\ [][TextsNext]_<<namesVars, lines>>

=============================================================================
