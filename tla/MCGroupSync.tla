---------------------------- MODULE MCGroupSync ----------------------------
(* The creator and the follower in a group of two, two invites, three       *)
(* events of which two may be deleted, a channel for one event, pages of    *)
(* one event.                                                               *)
EXTENDS GroupSync

CONSTANTS c, u, i1, i2
MCUsers == {c, u}
MCInvites == {i1, i2}
MCMaxUses == {1}
=============================================================================
