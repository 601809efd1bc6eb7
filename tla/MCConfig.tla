------------------------------ MODULE MCConfig ------------------------------
(***************************************************************************)
(* Instances of Config for TLC, with narrow integers and addresses.        *)
(***************************************************************************)
EXTENDS Config

\* The powers of the model are those of arithmetic.
ASSUME TwoToAssumption == \A n \in 0 .. 16 : TwoTo(n) = 2 ^ n

Given(v) == [is |-> "given", val |-> v]
NotGiven(nil) == {[is |-> "absent", val |-> nil], [is |-> "wrong", val |-> nil]}

Usual == [file |-> FALSE, packet |-> Given(1), workers |-> Given(1), port |-> Given(1),
          busy |-> Given(1), host |-> Given("v4"), folder |-> Given("exists"),
          auth |-> Given("text"), whitelist |-> <<>>]

SmallAddresses == [f \in Families |-> IF f = "v4" THEN 3 ELSE 2]

\* Below, in and above the range of every integer type, with the two signs.
EdgeNumbers == {Given(v) : v \in -1 .. 2 ^ Bits32 + 1}

AllEntries == EntryOf("v4") \union EntryOf("v6") \union {Invalid}

\* Every whitelist of up to two entries.
Whitelists ==
    {[Usual EXCEPT !.whitelist = l] : l \in {<<>>} \union {<<e>> : e \in AllEntries}
                                               \union (AllEntries \X AllEntries)}

\* A config file with one setting missing, of another type, or at an edge, and
\* the same with the command line, whose options have defaults.
Settings ==
    UNION {{[Usual EXCEPT !.file = file, ![k] = v] :
               v \in EdgeNumbers \union (IF file THEN NotGiven(0) ELSE {Given(2 ^ Bits32 + 2)})} :
           k \in {"packet", "workers", "port", "busy"}, file \in BOOLEAN}
    \union {[Usual EXCEPT !.file = TRUE, ![k] = v] : k \in {"host", "folder", "auth"}, v \in NotGiven("none")}
    \union {[Usual EXCEPT !.file = file, !.host = Given(h), !.folder = Given(d)] :
               file \in BOOLEAN, h \in {"v4", "v6", "unknown"}, d \in {"exists", "missing"}}

EveryInput == Whitelists \union Settings
=============================================================================
