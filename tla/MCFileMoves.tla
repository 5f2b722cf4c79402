---------------------------- MODULE MCFileMoves ----------------------------
(* FileMoves for TLC: paths, folders and contents are model values.         *)
EXTENDS FileMoves, TLC

CONSTANTS a, b, f, g

\* Each file in a folder of its own.
Apart == (a :> f) @@ (b :> g)

\* The files change places with their folders, and the contents are alike.
Alike ==
    {pp @@ bb : pp \in {(a :> a) @@ (b :> b) @@ (f :> f) @@ (g :> g), (a :> b) @@ (b :> a) @@ (f :> g) @@ (g :> f)},
                bb \in Permutations(Bytes)}
=============================================================================
