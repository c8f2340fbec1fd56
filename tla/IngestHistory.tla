--------------------------- MODULE IngestHistory ---------------------------
(***************************************************************************)
(* Ingest with a history variable, for what correlation does guarantee     *)
(* when detections and operators overlap.                                  *)
(***************************************************************************)
EXTENDS Ingest

VARIABLE
    match      \* history: incidents a request could have joined at every
               \* moment since it arrived

historyVars == <<vars, match>>

HistoryInit == Init /\ match = [r \in Requests |-> {}]

HistoryNext ==
    /\ Next
    /\ match' = [r \in Requests |->
                   IF pc'[r] \in {"new", "replied"} THEN {}
                   ELSE IF pc[r] = "new" THEN Candidates(r)'
                   ELSE match[r] \cap Candidates(r)']

HistorySpec == HistoryInit /\ [][HistoryNext]_historyVars

\* A detection opens a new incident only if none was there for it: an incident
\* that was open to it from the moment it arrived until it committed, however
\* others and operators moved meanwhile, is never passed over.
NoNeedlessIncident ==
    [][\A r \in Requests :
         status[r] = "absent" /\ status'[r] = "open" => match[r] = {}]_historyVars

=============================================================================
