---------------------------- MODULE Capabilities ----------------------------
(***************************************************************************)
(* What a shop's operating mode and a caller's role make available         *)
(* (capability_store.py) and what the preview of a change of mode says of  *)
(* it (mode_transition_store.py).  Levels are ranked FULL > LIMITED >      *)
(* HIDDEN > NOT_APPLICABLE.                                                *)
(***************************************************************************)
EXTENDS Naturals

Modes == {"solo", "mobile_field", "shop"}
Capability == {"customers", "vehicles", "estimates", "diagnostics", "work_orders",
               "invoices", "scheduling", "bays", "technicians", "parts", "reports",
               "field_functions", "optimus_actions"}

\* _MODE_LEVELS: everything is FULL but what is named here.
ModeLevels(mode, c) ==
    CASE mode = "solo" /\ c \in {"scheduling", "reports"}                -> "limited"
      [] mode = "solo" /\ c \in {"bays", "technicians"}                  -> "hidden"
      [] mode = "solo" /\ c = "field_functions"                          -> "not_applicable"
      [] mode = "mobile_field" /\ c \in {"technicians", "parts", "reports"} -> "limited"
      [] mode = "mobile_field" /\ c = "bays"                             -> "hidden"
      [] mode = "shop" /\ c = "field_functions"                          -> "limited"
      [] OTHER                                                           -> "full"

\* _TECHNICIAN_LEVELS, the same in every mode.
TechnicianLevels(c) ==
    CASE c \in {"customers", "vehicles", "diagnostics", "work_orders"} -> "full"
      [] c \in {"technicians", "parts", "optimus_actions"}             -> "limited"
      [] c = "bays"                                                    -> "not_applicable"
      [] OTHER                                                         -> "hidden"

CapabilityLevel(mode, role, c) ==
    IF role = "technician" THEN TechnicianLevels(c) ELSE ModeLevels(mode, c)

Available(level) == level \in {"full", "limited"}
Rank(level) == CASE level = "full" -> 3 [] level = "limited" -> 2
                 [] level = "hidden" -> 1 [] level = "not_applicable" -> 0

\* The data a preview counts, and the capability that surfaces it.
Categories == {"bays", "technicians", "appointments", "working_hours", "schedule_blocks"}
CapabilityOf(category) ==
    IF category \in {"bays", "technicians"} THEN category ELSE "scheduling"

CapabilityChanges(from, to, role) ==
    {c \in Capability : CapabilityLevel(from, role, c) # CapabilityLevel(to, role, c)}

WouldBeHidden(from, to, role) ==
    {c \in Capability : Available(CapabilityLevel(from, role, c))
                        /\ ~Available(CapabilityLevel(to, role, c))}

\* The kinds of data a warning is given for when there is some: less is made of it.
Warned(from, to, role) ==
    {k \in Categories : Rank(CapabilityLevel(to, role, CapabilityOf(k)))
                        < Rank(CapabilityLevel(from, role, CapabilityOf(k)))}
=============================================================================
