----------------------------- MODULE StockRules -----------------------------
(***************************************************************************)
(* The two static tables every stock write is checked against: the graph   *)
(* of legal inventory statuses (status-transitions.ts) and the table that  *)
(* says which named movement may cause which change, and into what kind of *)
(* location (movement-rules.ts).                                           *)
(***************************************************************************)
EXTENDS FiniteSets

Stock == {"STORE", "WAREHOUSE", "COUNTER", "VAULT"}   \* STOCK_LOCATION_TYPES

Partner == {"MANUFACTURING_UNIT", "JOB_WORKER", "REPAIR_CENTER", "HALLMARKING_CENTER"}

LocationTypes == Stock \union Partner

LegalTransitions ==
  [ AVAILABLE            |-> {"RESERVED", "SOLD", "IN_MANUFACTURING", "WITH_JOB_WORKER", "IN_TRANSIT",
                              "HALLMARKING", "UNDER_REPAIR", "DAMAGED", "SCRAP", "MELTING"},
    RESERVED             |-> {"AVAILABLE", "SOLD"},
    SOLD                 |-> {"RETURNED", "UNDER_REPAIR"},
    RETURNED             |-> {"AVAILABLE", "DAMAGED", "SCRAP"},
    DAMAGED              |-> {"UNDER_REPAIR", "SCRAP", "MELTING"},
    UNDER_REPAIR         |-> {"AVAILABLE", "DAMAGED", "SCRAP", "SOLD", "RETURNED_TO_CUSTOMER"},
    IN_MANUFACTURING     |-> {"AVAILABLE", "SCRAP", "MELTING"},
    WITH_JOB_WORKER      |-> {"AVAILABLE", "DAMAGED"},
    IN_TRANSIT           |-> {"AVAILABLE", "DAMAGED"},
    HALLMARKING          |-> {"AVAILABLE"},
    SCRAP                |-> {"MELTING"},
    MELTING              |-> {},
    RETURNED_TO_CUSTOMER |-> {} ]

Statuses == DOMAIN LegalTransitions

Legal(from, to) == to \in LegalTransitions[from]

(* A rule: the status changes a movement may make, the location types it   *)
(* may end in ("any": no constraint and no destination needed), and        *)
(* whether it may bring a new item into existence.                         *)
Rule(moves, destination, creates) ==
  [moves |-> moves, destination |-> destination, creates |-> creates]

MovementRules ==
  [ PURCHASE_RECEIPT      |-> Rule({}, Stock, TRUE),
    SALE                  |-> Rule({"AVAILABLE", "RESERVED"} \X {"SOLD"}, LocationTypes, FALSE),
    RETURN                |-> Rule({<<"SOLD", "RETURNED">>, <<"RETURNED", "AVAILABLE">>, <<"RETURNED", "DAMAGED">>}, Stock, FALSE),
    TRANSFER_OUT          |-> Rule({<<"AVAILABLE", "IN_TRANSIT">>}, Stock, FALSE),
    TRANSFER_IN           |-> Rule({<<"IN_TRANSIT", "AVAILABLE">>}, Stock, FALSE),
    RESERVATION           |-> Rule({<<"AVAILABLE", "RESERVED">>}, LocationTypes, FALSE),
    RELEASE_RESERVATION   |-> Rule({<<"RESERVED", "AVAILABLE">>}, LocationTypes, FALSE),
    MANUFACTURING_ISSUE   |-> Rule({<<"AVAILABLE", "IN_MANUFACTURING">>}, {"MANUFACTURING_UNIT"}, FALSE),
    MANUFACTURING_RECEIPT |-> Rule({<<"IN_MANUFACTURING", "AVAILABLE">>}, Stock, TRUE),
    JOBWORK_ISSUE         |-> Rule({<<"AVAILABLE", "WITH_JOB_WORKER">>}, {"JOB_WORKER"}, FALSE),
    JOBWORK_RECEIPT       |-> Rule({<<"WITH_JOB_WORKER", "AVAILABLE">>}, Stock, TRUE),
    REPAIR_OUT            |-> Rule({"AVAILABLE", "DAMAGED", "SOLD"} \X {"UNDER_REPAIR"}, {"REPAIR_CENTER"}, FALSE),
    REPAIR_IN             |-> Rule({<<"UNDER_REPAIR", "AVAILABLE">>}, Stock, FALSE),
    HALLMARKING_OUT       |-> Rule({<<"AVAILABLE", "HALLMARKING">>}, {"HALLMARKING_CENTER"}, FALSE),
    HALLMARKING_IN        |-> Rule({<<"HALLMARKING", "AVAILABLE">>}, Stock, FALSE),
    ADJUSTMENT            |-> Rule({}, LocationTypes, TRUE),
    SCRAP                 |-> Rule({"AVAILABLE", "RETURNED", "DAMAGED", "UNDER_REPAIR", "IN_MANUFACTURING"} \X {"SCRAP"}, LocationTypes, FALSE),
    MELTING               |-> Rule({"AVAILABLE", "DAMAGED", "IN_MANUFACTURING", "SCRAP"} \X {"MELTING"}, LocationTypes, FALSE),
    EXCHANGE_IN           |-> Rule({}, Stock, TRUE),
    REPAIR_INTAKE         |-> Rule({}, {"REPAIR_CENTER"}, TRUE),
    REPAIR_RETURN         |-> Rule({"UNDER_REPAIR"} \X {"SOLD", "RETURNED_TO_CUSTOMER"}, LocationTypes, FALSE) ]

Movements == DOMAIN MovementRules

(* allowedTargets(type, from) *)
AllowedTargets(m, from) == {to \in Statuses : <<from, to>> \in MovementRules[m].moves}

(* A custody movement has to say where the piece goes. *)
NeedsDestination(m) == MovementRules[m].destination # LocationTypes
=============================================================================
