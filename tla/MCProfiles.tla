----------------------------- MODULE MCProfiles -----------------------------
(* Instances of Profiles for TLC. *)
EXTENDS Profiles

(* Every profile, with and without its optional part where it has one. *)
AllConfigurations ==
    [profile : {"general", "networking", "compute"}, optional : BOOLEAN]
    \cup [profile : {"storage", "web", "database"}, optional : {TRUE}]

ThreeTasks == 1..3
=============================================================================
