----------------------------- MODULE MCDetector -----------------------------
(* TLC instances of Detector: one client, short windows.                    *)
EXTENDS Detector

MCWindow == [http_404 |-> 1, bad_status |-> 1, auth_fail |-> 1]
MCThreshold == [http_404 |-> 2, bad_status |-> 2, auth_fail |-> 2]

MCRequest(path, status, scanner) ==
    [path |-> path, status |-> status, scanner |-> scanner]
MCRequests ==
    [combined |-> {MCRequest("/a", "missing", FALSE), MCRequest("/admin", "bad", FALSE),
                   MCRequest("/.env", "ok", FALSE)},
     json |-> {MCRequest("/b", "bad", FALSE), MCRequest("/b", "bad", TRUE),
               MCRequest("/health", "bad", FALSE)}]
MCBudget(l, c) == [lines |-> l, crashes |-> c]
MCBudgets == {MCBudget(3, 0), MCBudget(2, 1)}
=============================================================================
