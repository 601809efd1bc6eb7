------------------------------- MODULE Config -------------------------------
(***************************************************************************)
(* The start of the server: main parses the command line, Config::init     *)
(* takes every setting from it, or from the config file when one is given, *)
(* and then builds the whitelist entry by entry.  A failure on the way     *)
(* ends the process.  Integers keep their width; an address is a number    *)
(* of as many bits as its family has.                                      *)
(***************************************************************************)
EXTENDS Integers, Sequences, SequencesExt

CONSTANTS
    Bits16,       \* width of uint16_t
    Bits32,       \* width of uint32_t and int
    AddressBits,  \* width of an address of each family
    DefaultPort,  \* the port of resolve_endpoint's fallback
    DefaultBusy,  \* the initial value of busy_timeout_ms
    Inputs        \* the settings given to the server

Families == {"v4", "v6"}

\* 2 ^ n, by a recursion that the proofs can follow.
TwoTo(n) ==
    LET power[i \in 0 .. n] == IF i = 0 THEN 1 ELSE 2 * power[i - 1]
    IN  power[n]

Addresses(f) == 0 .. TwoTo(AddressBits[f]) - 1
Bare == -1        \* an entry without a prefix length

\* A setting is there, is not there, or has another type.
Setting(S, nil) == [is : {"given"}, val : S] \union [is : {"absent", "wrong"}, val : {nil}]
Number == Setting(Int, 0)
Text(S) == Setting(S, "none")

EntryOf(f) == [family : {f}, addr : Addresses(f), len : Bare .. AddressBits[f]]
\* A string that is no address and no network, or no string at all.
Invalid == [family |-> "none", addr |-> 0, len |-> Bare]

InputType ==
    [file : BOOLEAN,
     packet : Number, workers : Number, port : Number, busy : Number,
     host : Text({"v4", "v6", "unknown"}),  \* what the resolver finds for it
     folder : Text({"exists", "missing"}),
     auth : Text({"text"}),
     whitelist : Seq(EntryOf("v4") \union EntryOf("v6") \union {Invalid})]

ASSUME ConfigAssumption ==
    /\ Bits16 \in Nat \ {0} /\ Bits32 \in Nat \ {0}
    /\ AddressBits \in [Families -> Nat \ {0}]
    /\ DefaultPort \in 0 .. TwoTo(Bits16) - 1 /\ DefaultBusy \in 0 .. TwoTo(Bits32) - 1
    /\ \A i \in Inputs : i \in InputType

VARIABLES
    input,    \* the settings of the command line or of the config file
    step,     \* "start", "whitelist", "listening", or how the process ended
    config,   \* the numbers of Config and its listen endpoint
    nets      \* ip_whitelist_v4 and ip_whitelist_v6

vars == <<input, step, config, nets>>

Init ==
    /\ input \in Inputs
    /\ step = "start"
    /\ config = [packet |-> 0, workers |-> 0, host |-> "none", port |-> 0, busy |-> DefaultBusy]
    /\ nets = <<>>

-----------------------------------------------------------------------------
(* What becomes of a setting: its value, or the end of the process, with a  *)
(* message ("exit": ConfigException, po::error) or with an exception that    *)
(* main does not catch ("terminate").                                       *)

Ok(v) == [end |-> "none", val |-> v]
End(how) == [end |-> how, val |-> "none"]

\* Mutation: the command line's numbers are cast as well.
ReadCasts(file, s, bits) ==
    IF s.is = "absent" THEN End("exit")
    ELSE IF s.is = "wrong" THEN End(IF file THEN "terminate" ELSE "exit")
    ELSE Ok(s.val % TwoTo(bits))

\* nlohmann::json casts a number to the type it is asked for; boost::lexical_cast
\* refuses a number that does not fit, and takes -n for 2^bits - n.
Read(file, s, bits) ==
    IF s.is = "absent" THEN End("exit")
    ELSE IF s.is = "wrong" THEN End(IF file THEN "terminate" ELSE "exit")
    ELSE IF ~file /\ s.val \notin -(TwoTo(bits) - 1) .. TwoTo(bits) - 1 THEN End("exit")
    ELSE Ok(s.val % TwoTo(bits))

\* In the file busy_timeout_ms is optional, and must be a number >= 0.
ReadBusy(file, s) ==
    IF file /\ s.is = "absent" THEN Ok(DefaultBusy)
    ELSE IF file /\ (s.is = "wrong" \/ s.val < 0) THEN End("exit")
    ELSE Read(file, s, Bits32)

ReadText(s) ==
    CASE s.is = "absent" -> End("exit")
      [] s.is = "wrong" -> End("terminate")
      [] OTHER -> Ok(s.val)

\* resolve_endpoint: the first IPv4 address of the host, or a fixed endpoint.
Endpoint(host, port) ==
    IF host = "v4" THEN [host |-> "configured", port |-> port]
    ELSE [host |-> "127.0.0.1", port |-> DefaultPort]

Numbers(i) ==
    [packet |-> Read(i.file, i.packet, Bits32), workers |-> Read(i.file, i.workers, Bits16),
     port |-> Read(i.file, i.port, Bits16), busy |-> ReadBusy(i.file, i.busy)]

\* How the settings end the process, in the order in which init meets them (the
\* order of the two arguments of resolve_endpoint is the compiler's choice).  A
\* config file that is missing or cannot be parsed ends like one without keys.
Ends(i) ==
    LET n == Numbers(i)
        host == ReadText(i.host)
        folder == ReadText(i.folder)
    IN  <<n.packet.end, n.workers.end, host.end, n.port.end,
          IF host.val = "unknown" THEN "terminate" ELSE "none",
          folder.end, IF folder.val = "missing" THEN "exit" ELSE "none",
          IF i.auth.is = "wrong" THEN "terminate" ELSE "none",
          n.busy.end>>

\* process_program_options has parsed all options before init begins.
BadOption(i) == ~i.file /\ \E k \in DOMAIN Numbers(i) : Numbers(i)[k].end # "none"

\* The first of them that fails.
Refuse ==
    /\ step = "start"
    /\ \E k \in DOMAIN Ends(input) :
          /\ Ends(input)[k] # "none"
          /\ \A j \in 1 .. k - 1 : Ends(input)[j] = "none"
          /\ step' = IF BadOption(input) THEN "exit" ELSE Ends(input)[k]
    /\ UNCHANGED <<input, config, nets>>

Load ==
    LET n == Numbers(input)
        e == Endpoint(input.host.val, n.port.val)
    IN
    /\ step = "start"
    /\ \A k \in DOMAIN Ends(input) : Ends(input)[k] = "none"
    /\ config' = [packet |-> n.packet.val, workers |-> n.workers.val,
                  host |-> e.host, port |-> e.port, busy |-> n.busy.val]
    /\ step' = "whitelist"
    /\ UNCHANGED <<input, nets>>

-----------------------------------------------------------------------------
(* The whitelist. *)

\* The network of an address: its host bits are cleared.
Canonical(f, addr, len) ==
    [family |-> f, addr |-> addr - (addr % TwoTo(AddressBits[f] - len)), len |-> len]

\* Mutation: a network is kept as it was written.
NetOfAsWritten(e) ==
    IF e.len = Bare THEN [e EXCEPT !.len = AddressBits[e.family]] ELSE e

NetOf(e) ==
    IF e.len = Bare THEN [e EXCEPT !.len = AddressBits[e.family]]
    ELSE Canonical(e.family, e.addr, e.len)

\* add_whitelist_entry, for the entries in their order.
AddWhitelistEntry ==
    /\ step = "whitelist"
    /\ Len(nets) < Len(input.whitelist)
    /\ LET e == input.whitelist[Len(nets) + 1] IN
          IF e = Invalid
          THEN step' = "exit" /\ UNCHANGED nets
          ELSE nets' = Append(nets, NetOf(e)) /\ UNCHANGED step
    /\ UNCHANGED <<input, config>>

Listen ==
    /\ step = "whitelist"
    /\ Len(nets) = Len(input.whitelist)
    /\ step' = "listening"
    /\ UNCHANGED <<input, config, nets>>

IsIpAllowed(f, addr) ==
    \/ nets = <<>>
    \/ \E net \in ToSet(nets) : net.family = f /\ Canonical(f, addr, net.len) = net

Next == Refuse \/ Load \/ AddWhitelistEntry \/ Listen

Spec == Init /\ [][Next]_vars

\* static_cast<int>(busy_timeout_ms) and sqlite3_busy_timeout: the wait of a
\* statement that finds the database locked.
BusyWait ==
    LET ms == IF config.busy >= TwoTo(Bits32 - 1) THEN config.busy - TwoTo(Bits32) ELSE config.busy
    IN  IF ms > 0 THEN ms ELSE 0

-----------------------------------------------------------------------------
\* The addresses from first to last of the range that an entry stands for.
InRange(e, addr) ==
    LET size == IF e.len = Bare THEN 1 ELSE TwoTo(AddressBits[e.family] - e.len)
        first == (e.addr \div size) * size
    IN  first <= addr /\ addr < first + size

(***************************************************************************)
(* A server that listens has understood every entry of its whitelist, and  *)
(* is_ip_allowed lets in exactly the addresses in the range of an entry of *)
(* their family, or all addresses when the list is empty: whatever the     *)
(* host bits of the entries, and at the prefix lengths 0 and full.         *)
(***************************************************************************)
WhitelistExact ==
    step = "listening" =>
        LET list == ToSet(input.whitelist) IN
        /\ Invalid \notin list
        /\ \A f \in Families : \A a \in Addresses(f) :
              IsIpAllowed(f, a) <=>
                  list = {} \/ \E e \in list : e.family = f /\ InRange(e, a)

Width(k) == IF k \in {"packet", "busy"} THEN Bits32 ELSE Bits16

\* A setting is a number that its type can hold; the command line has no other
\* (but for negative ones), a config file may have.
Holds(k) ==
    /\ input[k].is = "given" /\ input[k].val >= 0
    /\ input.file => input[k].val < TwoTo(Width(k))

(***************************************************************************)
(* A number that its type can hold is used as it is: one of the config     *)
(* file, and every number >= 0 of the command line, where a larger one is  *)
(* refused and never truncated.  The port is kept with a host that has an  *)
(* IPv4 address, and a busy timeout that also fits an int is the time that *)
(* a statement waits.                                                      *)
(***************************************************************************)
OptionsNotTruncated ==
    step \in {"whitelist", "listening"} =>
        /\ \A k \in {"packet", "workers", "busy"} : Holds(k) => config[k] = input[k].val
        /\ input.host.val = "v4" =>
              config.host = "configured" /\ (Holds("port") => config.port = input.port.val)
        /\ Holds("busy") /\ input.busy.val < TwoTo(Bits32 - 1) => BusyWait = input.busy.val
=============================================================================
