----------------------------- MODULE MCInjector -----------------------------
(* Injector for TLC: the pods that tell the rules apart.                     *)
EXTENDS Injector, TLC

Plain == [decodes |-> TRUE, hostNetwork |-> FALSE, ignored |-> FALSE,
          inject |-> "absent", mtls |-> FALSE]
Asking == [Plain EXCEPT !.mtls = TRUE]

\* Pods of the mesh, with and without mTLS, one that asks for injection, and one
\* for each rule that keeps the injector away, each asking for mTLS.
AllPods == {Plain, Asking,
            [Plain EXCEPT !.inject = "true"],
            [Asking EXCEPT !.hostNetwork = TRUE],
            [Asking EXCEPT !.ignored = TRUE],
            [Asking EXCEPT !.inject = "other"],
            [Asking EXCEPT !.decodes = FALSE]}

\* Reviews are interchangeable.
ReviewSymmetry == Permutations(Reviews)
=============================================================================
