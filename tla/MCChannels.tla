------------------------------ MODULE MCChannels ------------------------------
EXTENDS ChannelProperties

(* The runs do not follow an account after two restarts have gone on from *)
(* the end of one instance: the properties say nothing of it.              *)
NotOverlapped == ~overlap
=============================================================================
