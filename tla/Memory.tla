------------------------------- MODULE Memory -------------------------------
(* Commit memory (memory.rs, journal.rs): read-only views of the journal.     *)
(* An entry is [id, at, label, tags, profile, files], at in seconds; entries  *)
(* that cannot be read or parsed are already left out of the sets below.      *)
EXTENDS Naturals, Sequences, FiniteSets, SequencesExt, FiniteSetsExt

\* The most files that stats reports; 20 in the code.
CONSTANT TopFiles
ASSUME TopFilesAssumption == TopFiles \in Nat

All == [tags |-> {}, profiles |-> {}, labels |-> {}]

\* A filter asks for one of some tags, profiles and labels; {} asks nothing.
Matches(e, flt) ==
    /\ flt.tags = {} \/ flt.tags \cap ToSet(e.tags) # {}
    /\ flt.profiles = {} \/ e.profile \in flt.profiles
    /\ flt.labels = {} \/ e.label \in flt.labels

\* Entries of the same second come in the order of the directory, which is any.
Listings(E) == {s \in SetToSeqs(E) : \A i, j \in DOMAIN s : i < j => s[i].at <= s[j].at}
NewestFirst(E) == {Reverse(s) : s \in Listings(E)}

Truncate(s, n) == SubSeq(s, 1, IF Len(s) < n THEN Len(s) ELSE n)

\* The answers history may give; limit 0 stands for none.
HistoriesOldest(E, flt, limit) ==
    IF limit = 0 THEN NewestFirst({e \in E : Matches(e, flt)})
    ELSE {Reverse(Truncate(s, limit)) : s \in Listings({e \in E : Matches(e, flt)})}
Histories(E, flt, limit) ==
    LET all == NewestFirst({e \in E : Matches(e, flt)})
    IN  IF limit = 0 THEN all ELSE {Truncate(s, limit) : s \in all}

Count(E, P(_)) == Cardinality({e \in E : P(e)})
Touched(E) == UNION {e.files : e \in E}
Stats(E) ==
    [commits |-> Cardinality(E),
     files |-> IF Cardinality(Touched(E)) < TopFiles THEN Cardinality(Touched(E)) ELSE TopFiles,
     profiles |-> [p \in {e.profile : e \in E} |-> Count(E, LAMBDA e : e.profile = p)],
     first |-> IF E = {} THEN 0 ELSE Min({e.at : e \in E}),
     last |-> IF E = {} THEN 0 ELSE Max({e.at : e \in E})]
=============================================================================
