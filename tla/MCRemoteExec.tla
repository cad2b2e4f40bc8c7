---------------------------- MODULE MCRemoteExec ----------------------------
EXTENDS RemoteExec

Job(out, err, prompt, redirected) ==
    [out |-> out, err |-> err, prompt |-> prompt, redirected |-> redirected]

(* Quiet, talkative, asking for a password, failing, redirected.             *)
MCJobs == {Job(0, 0, FALSE, FALSE), Job(2, 0, FALSE, FALSE), Job(2, 1, TRUE, FALSE),
           Job(1, 2, FALSE, FALSE), Job(0, 1, FALSE, TRUE)}
=============================================================================
