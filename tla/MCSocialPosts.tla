---------------------------- MODULE MCSocialPosts ----------------------------
(***************************************************************************)
(* Instances of SocialPosts for TLC.                                         *)
(***************************************************************************)
EXTENDS SocialPosts

=============================================================================
