------------------------------- MODULE MCAsk -------------------------------
(***************************************************************************)
(* Instances of Ask for TLC.                                               *)
(***************************************************************************)
EXTENDS Ask

McChain == <<"groq">>

\* Clients are interchangeable, and so are handlers.
McSymmetry == Permutations(Client) \cup Permutations(Caller)
=============================================================================
