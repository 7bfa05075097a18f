----------------------------- MODULE MCUploader -----------------------------
(* Small instances of Uploader for TLC.                                    *)
EXTENDS Uploader, TLC

CONSTANTS f1, f2, n1, r1, r2

\* One file with two records, the second too large to be sent.
OneNameOf == f1 :> n1
OneFileOf == (r1 :> f1) @@ (r2 :> f1)

\* Two versions of one name, the first with two records and the second without
\* data lines.
VersionsNameOf == (f1 :> n1) @@ (f2 :> n1)
VersionsFileOf == (r1 :> f1) @@ (r2 :> f1)

PassSymmetry == Permutations(Passes)
=============================================================================
