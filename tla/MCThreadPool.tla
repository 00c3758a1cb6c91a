---------------------------- MODULE MCThreadPool ----------------------------
(* ThreadPool for TLC: interchangeable threads, tasks and addresses. *)
EXTENDS ThreadPool, TLC

Symmetry == Permutations(Clients) \cup Permutations(Workers) \cup Permutations(Tasks)
                \cup Permutations(Ctxs)
=============================================================================
