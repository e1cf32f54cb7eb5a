------------------------------ MODULE Entities ------------------------------
(***************************************************************************)
(* The four record kinds of the incident control program and what makes    *)
(* their services differ: the status graph, the status of a new record,    *)
(* the statuses of the seeded records and whether a transition needs the   *)
(* second confirmation.  Everything else in the four service, handler and  *)
(* repository files is the same text with other names; RecordService       *)
(* models that common protocol once.                                       *)
(***************************************************************************)
EXTENDS FiniteSets

EntityKinds == {"SolarSite", "InverterUnit", "FaultEvent", "MitigationAction"}

-----------------------------------------------------------------------------
(* The status graphs.  A graph maps each known status to the statuses a    *)
(* record may move to from there.                                          *)

SolarSiteTransitions ==
  [online      |-> {"limited", "offline"},
   limited     |-> {"offline", "maintenance", "online"},
   offline     |-> {"maintenance", "limited"},
   maintenance |-> {"offline"}]

InverterUnitTransitions ==
  [online   |-> {"warning", "tripped"},
   warning  |-> {"tripped", "isolated", "online"},
   tripped  |-> {"isolated", "warning"},
   isolated |-> {"tripped"}]

FaultEventTransitions ==
  [open         |-> {"acknowledged", "mitigated"},
   acknowledged |-> {"mitigated", "closed", "open"},
   mitigated    |-> {"closed", "acknowledged"},
   closed       |-> {"mitigated"}]

MitigationActionTransitions ==
  [draft     |-> {"confirmed", "executing"},
   confirmed |-> {"executing", "completed", "draft"},
   executing |-> {"completed", "failed", "confirmed"},
   completed |-> {"failed", "executing"},
   failed    |-> {"completed"}]

(* An unknown source status has no targets. *)
CanTransition(graph, from, to) == from \in DOMAIN graph /\ to \in graph[from]

-----------------------------------------------------------------------------
(* What each service file passes to the common protocol: its graph, the    *)
(* status Create gives, the statuses database.Seed gives, and whether      *)
(* Transition asks for the second confirmation first.                      *)

SolarSiteService ==
  [graph |-> SolarSiteTransitions, initial |-> "online",
   seeds |-> {"online", "limited", "offline"}, confirm |-> FALSE]

InverterUnitService ==
  [graph |-> InverterUnitTransitions, initial |-> "online",
   seeds |-> {"online", "warning", "tripped"}, confirm |-> FALSE]

FaultEventService ==
  [graph |-> FaultEventTransitions, initial |-> "open",
   seeds |-> {"open", "acknowledged", "mitigated"}, confirm |-> FALSE]

MitigationActionService ==
  [graph |-> MitigationActionTransitions, initial |-> "draft",
   seeds |-> {"draft", "confirmed", "executing"}, confirm |-> TRUE]

Service == [SolarSite        |-> SolarSiteService,
            InverterUnit     |-> InverterUnitService,
            FaultEvent       |-> FaultEventService,
            MitigationAction |-> MitigationActionService]

Statuses(kind) == DOMAIN Service[kind].graph
Edge(kind, from, to) == CanTransition(Service[kind].graph, from, to)
AllStatuses == UNION {Statuses(kind) : kind \in EntityKinds}
=============================================================================
