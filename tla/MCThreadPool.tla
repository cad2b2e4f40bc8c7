---------------------------- MODULE MCThreadPool ----------------------------
(* Instances of ThreadPool for TLC. *)
EXTENDS ThreadPool

\* Lists as NetworkSetup gets them: some empty (the first nodes of an
\* interleaved order have no edge yet), one longer than the pool, two in a row.
MCListLen == <<0, 4, 0, 1, 2>>

\* Tasks of the first and of the last batch may fail.
MCMayFail == {<<2, 1>>, <<2, 3>>, <<5, 1>>}

MCShortListLen == <<0, 3, 2>>
MCShortMayFail == {<<2, 1>>, <<3, 1>>}
=============================================================================
