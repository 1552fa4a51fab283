------------------------------ MODULE Incidents ------------------------------
(***************************************************************************)
(* The incident table (memory/store.py) under concurrent callers of the    *)
(* authenticated API (protected_api.py, graphql_api.py) and of the local   *)
(* mock API (api.py) on one database: creation by idempotency key, reads,  *)
(* and the publication of the first report.                                *)
(***************************************************************************)
EXTENDS Naturals, FiniteSets

CONSTANTS Callers,   \* one API request each
          Keys,      \* idempotency keys; "none" stands for a request without one
          Bodies     \* the incidents callers ask for

\* A new incident has an id of its own, and "none" is no incident.
ASSUME IncidentAssumption == "old" \notin Callers /\ "none" \notin Bodies

VARIABLES rows,      \* the table: per incident its key, request and report
          call,      \* per caller: [op, at, key, body, target, seen]
          answer,    \* per caller: what it was told
          allowed    \* the callers whose principal is still authorized

incidentVars == <<rows, call, answer, allowed>>

\* A caller's new incident has a fresh id, its own name here; one incident exists before.
Ids == Callers \cup {"old"}

NoReport == [by |-> "none", mode |-> "none"]
NoRow == [key |-> "none", body |-> "none", report |-> NoReport]
NoAnswer == [code |-> "none", incident |-> "none", report |-> NoReport]
Idle == [op |-> "none", at |-> "none", key |-> "none", body |-> "none", target |-> "none",
         seen |-> NoRow]

IncidentInit ==
  /\ rows = [i \in Ids |-> IF i = "old" THEN [NoRow EXCEPT !.body = "given"] ELSE NoRow]
  /\ call = [c \in Callers |-> Idle]
  /\ answer = [c \in Callers |-> NoAnswer]
  /\ allowed = Callers

Exists(i) == rows[i] # NoRow

Step(c, op, at) == call[c].op = op /\ call[c].at = at
Goto(c, at) == call' = [call EXCEPT ![c].at = at]
Tell(c, code, i, report) ==
  /\ answer' = [answer EXCEPT ![c] = [code |-> code, incident |-> i, report |-> report]]
  /\ Goto(c, "told")
Refuse(c, code) == Tell(c, code, "none", NoReport)

\* actor, authorize and scoped_incident: checked when a request comes and again before an
\* investigation publishes or a query answers.
Authorized(c) == c \in allowed

Revoked(c) ==
  /\ c \in allowed /\ call[c].op \in {"investigate", "query"} /\ call[c].at # "told"
  /\ allowed' = allowed \ {c}
  /\ UNCHANGED <<rows, call, answer>>

-----------------------------------------------------------------------------
(* create                                                                  *)

Ask(c) ==
  /\ call[c] = Idle /\ Authorized(c)
  /\ \/ \E k \in Keys \cup {"none"}, b \in Bodies :
          call' = [call EXCEPT ![c] = [Idle EXCEPT !.op = "create", !.at = "insert",
                                                   !.key = k, !.body = b]]
     \/ \E op \in {"investigate", "mock", "query"}, i \in Ids :
          /\ Exists(i)
          /\ call' = [call EXCEPT ![c] = [Idle EXCEPT !.op = op, !.at = "read", !.target = i]]
  /\ UNCHANGED <<rows, answer, allowed>>

Clash(key) == key # "none" /\ \E i \in Ids : Exists(i) /\ rows[i].key = key

\* The unique constraint decides the insert.
Insert(c) ==
  /\ Step(c, "create", "insert")
  /\ IF Clash(call[c].key)
     THEN Goto(c, "previous") /\ UNCHANGED <<rows, answer>>
     ELSE /\ rows' = [rows EXCEPT ![c] = [NoRow EXCEPT !.key = call[c].key, !.body = call[c].body]]
          /\ Tell(c, "created", c, NoReport)
  /\ UNCHANGED allowed

\* After the rollback the row with the key is read back.
Previous(c) ==
  /\ Step(c, "create", "previous")
  /\ \E i \in Ids :
       /\ Exists(i) /\ rows[i].key = call[c].key
       /\ IF rows[i].body = call[c].body THEN Tell(c, "created", i, NoReport) ELSE Refuse(c, "conflict")
  /\ UNCHANGED <<rows, allowed>>

-----------------------------------------------------------------------------
(* get and GraphQL: one read; a query checks the caller again at the end.  *)

Query(c) ==
  /\ \/ /\ Step(c, "query", "read")
        /\ call' = [call EXCEPT ![c].at = "resolved", ![c].seen = rows[call[c].target]]
        /\ UNCHANGED answer
     \/ /\ Step(c, "query", "resolved")
        /\ IF Authorized(c) THEN Tell(c, "ok", call[c].target, call[c].seen.report)
                            ELSE Refuse(c, "denied")
  /\ UNCHANGED <<rows, allowed>>

-----------------------------------------------------------------------------
(* investigate, and save_report                                            *)

ModeOf(c) == IF call[c].op = "mock" THEN "mock" ELSE "live"

Investigating(c, at) == call[c].op \in {"investigate", "mock"} /\ call[c].at = at

\* An existing report is used again by the authenticated API, returned by the mock one.
ReadIncident(c) ==
  /\ Investigating(c, "read")
  /\ LET row == rows[call[c].target]
     IN  IF call[c].op = "mock" /\ row.report # NoReport
         THEN Tell(c, "ok", call[c].target, row.report)
         ELSE /\ call' = [call EXCEPT ![c].at = "investigated", ![c].seen = row]
              /\ UNCHANGED answer
  /\ UNCHANGED <<rows, allowed>>

\* The report in hand: the one read, or the investigation's own.
Candidate(c) == IF call[c].seen.report # NoReport THEN call[c].seen.report
                ELSE [by |-> c, mode |-> ModeOf(c)]

\* The mode check and the second authorization, then save_report reads the row.
Reauthorize(c) ==
  /\ Investigating(c, "investigated")
  /\ CASE call[c].op = "investigate" /\ Candidate(c).mode # "live" -> Refuse(c, "mismatch")
       [] call[c].op = "investigate" /\ ~Authorized(c) -> Refuse(c, "denied")
       [] OTHER -> Goto(c, "saving") /\ UNCHANGED answer
  /\ UNCHANGED <<rows, allowed>>

\* Returned, unless the winner's report is of another mode.
TellReport(c, report) ==
  IF call[c].op = "investigate" /\ report.mode # "live"
  THEN Refuse(c, "other mode") ELSE Tell(c, "ok", call[c].target, report)

\* save_report's select; `seen` is the payload the update will compare.
ReadRow(c) ==
  /\ Investigating(c, "saving")
  /\ LET row == rows[call[c].target]
     IN  IF row.report # NoReport THEN TellReport(c, row.report)
         ELSE /\ call' = [call EXCEPT ![c].at = "updating", ![c].seen = row]
              /\ UNCHANGED answer
  /\ UNCHANGED <<rows, allowed>>

\* Mutant: the update does not compare the payload.
UpdateRowBlind(c) ==
  /\ Investigating(c, "updating")
  /\ rows' = [rows EXCEPT ![call[c].target].report = Candidate(c)]
  /\ TellReport(c, Candidate(c))
  /\ UNCHANGED allowed

\* The conditional update; a loser reads the winner's report.
UpdateRow(c) ==
  /\ Investigating(c, "updating")
  /\ LET i == call[c].target
     IN  IF rows[i] = call[c].seen
         THEN rows' = [rows EXCEPT ![i].report = Candidate(c)] /\ TellReport(c, Candidate(c))
         ELSE Goto(c, "lost") /\ UNCHANGED <<rows, answer>>
  /\ UNCHANGED allowed

ReadWinner(c) ==
  /\ Investigating(c, "lost")
  /\ TellReport(c, rows[call[c].target].report)
  /\ UNCHANGED <<rows, allowed>>

IncidentNext ==
  \E c \in Callers :
    \/ Revoked(c) \/ Ask(c) \/ Insert(c) \/ Previous(c) \/ Query(c) \/ ReadIncident(c)
    \/ Reauthorize(c) \/ ReadRow(c) \/ UpdateRow(c) \/ ReadWinner(c)

IncidentSpec == IncidentInit /\ [][IncidentNext]_incidentVars

-----------------------------------------------------------------------------
(* Properties.                                                             *)

Told(c, op) == answer[c].code \in {"created", "ok"} /\ call[c].op \in op

\* Callers that share a key are told one incident, with their own request in it; nobody is
\* told two different reports of an incident, and the table still holds the one told.
IncidentsAgree ==
  /\ \A c, d \in Callers : Told(c, {"create"}) /\ Told(d, {"create"}) /\ call[c].key = call[d].key
       /\ call[c].key # "none" => answer[c].incident = answer[d].incident
  /\ \A c \in Callers : Told(c, {"create"}) => rows[answer[c].incident].body = call[c].body
  /\ \A c \in Callers : answer[c].report # NoReport =>
       /\ rows[answer[c].incident].report = answer[c].report
       /\ call[c].op = "investigate" => answer[c].report.mode = "live"
==============================================================================
