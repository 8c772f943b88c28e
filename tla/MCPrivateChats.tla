--------------------------- MODULE MCPrivateChats ---------------------------
(* The two users, the chats and the tasks are interchangeable. *)
EXTENDS PrivateChats

Symmetry ==
  Permutations(Users) \cup Permutations(ChatIds) \cup Permutations(Tasks)
=============================================================================
