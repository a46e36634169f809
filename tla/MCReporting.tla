---------------------------- MODULE MCReporting ----------------------------
(* Writers, windows and payloads for Reporting. *)
EXTENDS ReportingClaims, TLC

CONSTANTS p1, p2

Halt == <<"halt-new-entries", TRUE>>
Resume == <<"resume-new-entries", TRUE>>
SwitchJobs == {Halt, Resume}

Operators == Permutations({p1, p2})

Quiet ==
    [procs |-> {p1, p2}, jobs |-> SwitchJobs, payloads |-> {}, windows |-> {},
     maxTime |-> 0, maxRows |-> 4, maxReports |-> 0, maxRequests |-> 0]

\* Switch commands that overtake one another, and windows that share an instant.
Late ==
    [Quiet EXCEPT !.payloads = {<<"RECONCILIATION_SNAPSHOT", "MISMATCH">>},
                  !.windows = {<<0, 0>>, <<0, 1>>, <<1, 1>>}, !.maxTime = 1]

\* One operator, running state that can be overtaken and rows a report counts in its
\* window, and a window that is inverted.
Archive(p) ==
    [Quiet EXCEPT !.procs = {p}, !.jobs = {Halt, <<"halt-new-entries", FALSE>>},
                  !.payloads = {<<"HUMAN_REQUIRED_EVENT", "unresolved">>,
                                <<"RECONCILIATION_SNAPSHOT", "MISMATCH">>,
                                <<"RECONCILIATION_SNAPSHOT", "MATCH">>},
                  !.windows = {<<0, 1>>, <<1, 2>>, <<1, 0>>},
                  !.maxTime = 2, !.maxRows = 3, !.maxReports = 2]

\* A status request while two operators write at one clock reading.
Relay == [Quiet EXCEPT !.jobs = {Halt, <<"status", TRUE>>}, !.maxRequests = 1]

MCSettings == {Late, Relay} \cup {Archive(p) : p \in Procs}
Switching == {[Quiet EXCEPT !.maxTime = 1]}
=============================================================================
