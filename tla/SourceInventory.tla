--------------------------- MODULE SourceInventory ---------------------------
(***************************************************************************)
(* parse_sources_output of config.py: the rows dom0 reports, one per VM,   *)
(* become the map from addresses to policy names, or are refused.          *)
(***************************************************************************)
EXTENDS FiniteSets

CONSTANTS
    IPs,              \* addresses of VMs; a row may have none
    NoIP,
    Numbered,         \* names disp1 .. disp9999
    DispLike,         \* names that contain "disp"
    Prefixed,         \* names that start with "dispvm-"
    DefaultDvms,      \* DEFAULT_DVM_TEMPLATE and config default_disposable_vm_name
    DispvmOf          \* template -> dispvm-<template>

ASSUME NamesAssumption ==
    /\ Numbered \subseteq DispLike /\ Numbered \cap Prefixed = {}
    /\ \A t \in DOMAIN DispvmOf : DispvmOf[t] \in Prefixed
    /\ \A t, u \in DOMAIN DispvmOf : DispvmOf[t] = DispvmOf[u] => t = u

Classes == {"AppVM", "TemplateVM", "StandaloneVM", "DispVM"}

\* validate_source_name and validate_qubes_vm_name, for VMs and templates
BrokenNameRefused(name, class) == name \in Prefixed /\ class # "DispVM"
NameRefused(name, class) == name \in Prefixed \/ (name \in DispLike /\ class # "DispVM")

RowRefused(row) ==
    \/ NameRefused(row.name, row.class)
    \/ row.class \notin Classes
    \/ row.class = "DispVM" /\ NameRefused(row.template, "TemplateVM")

\* dispvm_policy_source; a DispVM of the default template has its own name.
OnDefault(row) == row.class = "DispVM" /\ row.template \in DefaultDvms
PolicyName(row) ==
    IF row.class = "DispVM" /\ ~ OnDefault(row) THEN DispvmOf[row.template] ELSE row.name

\* Rows without address, and generic disposables that have no number.
Counted(rows) ==
    {row \in rows : row.ip # NoIP /\ (OnDefault(row) => row.name \in Numbered)}

ParseRefuses(rows) ==
    LET with == {row \in rows : row.ip # NoIP}
        kept == Counted(rows)
    IN  \/ \E row \in with : RowRefused(row)
        \/ \E a, b \in kept : a # b /\ a.ip = b.ip
        \/ \E a, b \in kept : PolicyName(a) = PolicyName(b) /\ a.label # b.label

ParseSources(rows) ==
    [ip \in {row.ip : row \in Counted(rows)} |->
        PolicyName(CHOOSE row \in Counted(rows) : row.ip = ip)]
=============================================================================
