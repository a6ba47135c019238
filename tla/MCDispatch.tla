------------------------------ MODULE MCDispatch ------------------------------
(* Instances of ChannelDispatch: bursts of messages and stop commands of     *)
(* one telegram sender.                                                     *)
EXTENDS ChannelDispatch
==============================================================================
