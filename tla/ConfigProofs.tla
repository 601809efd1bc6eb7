---------------------------- MODULE ConfigProofs ----------------------------
(***************************************************************************)
(* Proofs about Config, for every width of the integers and addresses and  *)
(* every set of settings:                                                  *)
(*   - a number that fits its type is used as it is, and a number of the   *)
(*     command line that does not is refused;                              *)
(*   - the whitelist lets in exactly the addresses of its entries.         *)
(***************************************************************************)
EXTENDS Config, NumberInduction, SequenceTheorems, TLAPS

-----------------------------------------------------------------------------
(* Powers of two. *)

\* The recursion of TwoTo has a solution.
LEMMA TwoToExists ==
  ASSUME NEW n \in Nat
  PROVE  \E f : f = [i \in 0 .. n |-> IF i = 0 THEN 1 ELSE 2 * f[i - 1]]
<1> DEFINE Solves(f, k) == f = [i \in 0 .. k |-> IF i = 0 THEN 1 ELSE 2 * f[i - 1]]
           T == {k \in Nat : \E f : Solves(f, k)}
<1>1. 0 \in T
  <2> DEFINE f == [i \in 0 .. 0 |-> 1]
  <2>1. f = [i \in 0 .. 0 |-> IF i = 0 THEN 1 ELSE 2 * f[i - 1]]
    OBVIOUS
  <2>2. \E g : Solves(g, 0)
    <3> HIDE DEF f
    <3> QED
      BY <2>1
  <2> QED
    BY <2>2
<1>2. \A k \in 0 .. n - 1 : k \in T => k + 1 \in T
  <2> SUFFICES ASSUME NEW k \in 0 .. n - 1, k \in T PROVE k + 1 \in T
    OBVIOUS
  <2>0. PICK f : Solves(f, k)
    OBVIOUS
  <2> DEFINE g == [i \in 0 .. k + 1 |-> IF i <= k THEN f[i] ELSE 2 * f[k]]
  <2>1. \A i \in 0 .. k : f[i] = IF i = 0 THEN 1 ELSE 2 * f[i - 1]
    BY <2>0
  <2>2. \A i \in 0 .. k : g[i] = f[i]
    OBVIOUS
  <2>3. \A i \in 0 .. k + 1 : g[i] = IF i = 0 THEN 1 ELSE 2 * g[i - 1]
    <3> TAKE i \in 0 .. k + 1
    <3>1. CASE i = k + 1
      BY <3>1, <2>2
    <3>2. CASE i \in 0 .. k
      <4>1. i = 0 \/ i - 1 \in 0 .. k
        BY <3>2
      <4> QED
        BY <3>2, <4>1, <2>1, <2>2
    <3> QED
      BY <3>1, <3>2
  <2>4. Solves(g, k + 1)
    <3>1. DOMAIN g = 0 .. k + 1 /\ g = [i \in 0 .. k + 1 |-> g[i]]
      OBVIOUS
    <3> HIDE DEF g
    <3> QED
      BY <2>3, <3>1
  <2> HIDE DEF Solves, g
  <2> QED
    BY <2>4
<1>3. n \in T
  <2> HIDE DEF T
  <2>1. \A k \in 0 .. n : k \in T
    BY <1>1, <1>2, Induction
  <2> QED
    BY <2>1
<1> QED
  BY <1>3

\* Every power of two is a positive number, and the first is 1.
LEMMA PowersOfTwo == TwoTo(0) = 1 /\ \A n \in Nat : TwoTo(n) \in Nat \ {0}
<1>1. ASSUME NEW n \in Nat
      PROVE  TwoTo(n) \in Nat \ {0} /\ (n = 0 => TwoTo(n) = 1)
  <2> DEFINE Solves(g) == g = [i \in 0 .. n |-> IF i = 0 THEN 1 ELSE 2 * g[i - 1]]
             f == CHOOSE g : Solves(g)
             T == {i \in 0 .. n : f[i] \in Nat \ {0}}
  <2>1. \E g : Solves(g)
    BY TwoToExists
  <2>2. Solves(f)
    BY <2>1, Zenon
  <2>3. TwoTo(n) = f[n]
    BY Zenon DEF TwoTo
  <2> HIDE DEF f
  <2>4. \A i \in 0 .. n : f[i] = IF i = 0 THEN 1 ELSE 2 * f[i - 1]
    BY <2>2
  <2>5. f[0] = 1 /\ 0 \in T
    BY <2>4
  <2>6. \A i \in 0 .. n - 1 : i \in T => i + 1 \in T
    <3> SUFFICES ASSUME NEW i \in 0 .. n - 1, i \in T PROVE i + 1 \in T
      OBVIOUS
    <3>1. i + 1 \in 0 .. n /\ i + 1 # 0 /\ (i + 1) - 1 = i
      OBVIOUS
    <3>2. f[i + 1] = 2 * f[i]
      BY <2>4, <3>1
    <3> QED
      BY <3>1, <3>2
  <2>7. n \in T
    <3> HIDE DEF T
    <3>1. \A i \in 0 .. n : i \in T
      BY <2>5, <2>6, Induction
    <3> QED
      BY <3>1
  <2> QED
    BY <2>3, <2>5, <2>7
<1> QED
  BY <1>1
-----------------------------------------------------------------------------
(* The numbers of the command line. *)

EndNames == {"none", "exit", "terminate"}

\* Every setting is read or ends the process.
LEMMA ReadEnds ==
  /\ \A file \in BOOLEAN, s \in Number, bits \in Nat : Read(file, s, bits).end \in EndNames
  /\ \A file \in BOOLEAN, s \in Number : ReadBusy(file, s).end \in EndNames
  /\ \A s : ReadText(s).end \in EndNames
<1>1. \A file \in BOOLEAN, s \in Number, bits \in Nat : Read(file, s, bits).end \in EndNames
  BY DEF Read, Ok, End, EndNames
<1>2. \A file \in BOOLEAN, s \in Number : ReadBusy(file, s).end \in EndNames
  BY <1>1, ConfigAssumption DEF ReadBusy, Ok, End, EndNames
<1>3. \A s : ReadText(s).end \in EndNames
  BY DEF ReadText, Ok, End, EndNames
<1> QED
  BY <1>1, <1>2, <1>3

\* A number that is read and not negative, and fits its type when it is from
\* the config file, is the number.
LEMMA ReadExact ==
  ASSUME NEW file \in BOOLEAN, NEW s \in Number, NEW bits \in Nat,
         Read(file, s, bits).end = "none", s.val >= 0, file => s.val < TwoTo(bits)
  PROVE  Read(file, s, bits).val = s.val
<1>1. s.val \in Int
  BY DEF Number, Setting
<1>2. TwoTo(bits) \in Int
  BY PowersOfTwo
<1>3. /\ file \/ s.val \in -(TwoTo(bits) - 1) .. TwoTo(bits) - 1
      /\ Read(file, s, bits).val = s.val % TwoTo(bits)
  BY DEF Read, Ok, End
<1>4. s.val % TwoTo(bits) = s.val
  BY <1>1, <1>2, <1>3
<1> QED
  BY <1>3, <1>4

\* What the proofs use of the settings.
LEMMA InputTyped == \A i \in InputType :
    /\ i.file \in BOOLEAN
    /\ i.packet \in Number /\ i.workers \in Number /\ i.port \in Number /\ i.busy \in Number
  BY DEF InputType

\* Each part of the start goes on or ends the process in one of two ways.
LEMMA EndsTyped == \A i \in InputType : \A k \in DOMAIN Ends(i) : Ends(i)[k] \in EndNames
<1> TAKE i \in InputType
<1>1. Bits16 \in Nat /\ Bits32 \in Nat
  BY ConfigAssumption
<1>2. /\ Numbers(i).packet.end \in EndNames /\ Numbers(i).workers.end \in EndNames
      /\ Numbers(i).port.end \in EndNames /\ Numbers(i).busy.end \in EndNames
  BY <1>1, InputTyped, ReadEnds DEF Numbers
<1>3. ReadText(i.host).end \in EndNames /\ ReadText(i.folder).end \in EndNames
  BY ReadEnds
<1>4. "none" \in EndNames /\ "exit" \in EndNames /\ "terminate" \in EndNames
  BY DEF EndNames
<1> QED
  BY <1>2, <1>3, <1>4 DEF Ends

\* The configuration is what the settings say, and none of them has failed.
Loaded ==
    LET n == Numbers(input)
        e == Endpoint(input.host.val, n.port.val)
    IN  /\ n.packet.end = "none" /\ n.workers.end = "none" /\ n.port.end = "none" /\ n.busy.end = "none"
        /\ config = [packet |-> n.packet.val, workers |-> n.workers.val,
                     host |-> e.host, port |-> e.port, busy |-> n.busy.val]

OptionsInv ==
    /\ input \in InputType
    /\ step \in {"whitelist", "listening"} => Loaded

LEMMA OptionsInit == Init => OptionsInv
  BY ConfigAssumption DEF Init, OptionsInv

\* Only Load sets the configuration, and only when no setting has failed.
LEMMA OptionsStep == OptionsInv /\ [Next]_vars => OptionsInv'
<1> SUFFICES ASSUME OptionsInv, [Next]_vars PROVE OptionsInv'
  OBVIOUS
<1>1. CASE Refuse
  <2>1. step' \in EndNames
    BY <1>1, EndsTyped DEF Refuse, OptionsInv, EndNames
  <2> QED
    BY <1>1, <2>1 DEF Refuse, OptionsInv, EndNames
<1>2. CASE Load
  <2>1. \A k \in 1 .. 9 : Ends(input)[k] = "none"
    BY <1>2 DEF Load, Ends
  <2>2. /\ Ends(input)[1] = "none" /\ Ends(input)[2] = "none"
        /\ Ends(input)[4] = "none" /\ Ends(input)[9] = "none"
    BY <2>1
  <2>3. /\ Numbers(input).packet.end = "none" /\ Numbers(input).workers.end = "none"
        /\ Numbers(input).port.end = "none" /\ Numbers(input).busy.end = "none"
    BY <2>2 DEF Ends
  <2> QED
    BY <1>2, <2>3 DEF Load, Loaded, OptionsInv
<1>3. CASE AddWhitelistEntry
  BY <1>3 DEF AddWhitelistEntry, Loaded, OptionsInv
<1>4. CASE Listen
  BY <1>4 DEF Listen, Loaded, OptionsInv
<1>5. CASE UNCHANGED vars
  BY <1>5 DEF vars, Loaded, OptionsInv
<1> QED
  BY <1>1, <1>2, <1>3, <1>4, <1>5 DEF Next

\* A number that its type can hold is used as it is, a larger one of the command
\* line is refused (get_config_value, process_program_options), the port is kept
\* with a host that has an IPv4 address, and a busy timeout that fits an int is
\* the wait of a statement: for every width of the integers.
THEOREM OptionsAreExact == Spec => []OptionsNotTruncated
<1>1. OptionsInv => OptionsNotTruncated
  <2> SUFFICES ASSUME OptionsInv, step \in {"whitelist", "listening"}
               PROVE  /\ \A k \in {"packet", "workers", "busy"} : Holds(k) => config[k] = input[k].val
                      /\ input.host.val = "v4" =>
                            /\ config.host = "configured"
                            /\ Holds("port") => config.port = input.port.val
                      /\ Holds("busy") /\ input.busy.val < TwoTo(Bits32 - 1) => BusyWait = input.busy.val
    BY DEF OptionsNotTruncated
  <2> DEFINE n == Numbers(input)
             file == input.file
  <2>1. /\ file \in BOOLEAN /\ Bits16 \in Nat /\ Bits32 \in Nat
        /\ input.packet \in Number /\ input.workers \in Number
        /\ input.port \in Number /\ input.busy \in Number
    BY InputTyped, ConfigAssumption DEF OptionsInv
  <2>2. /\ n.packet = Read(file, input.packet, Bits32) /\ n.workers = Read(file, input.workers, Bits16)
        /\ n.port = Read(file, input.port, Bits16) /\ n.busy = ReadBusy(file, input.busy)
    BY DEF Numbers
  <2>3. n.packet.end = "none" /\ n.workers.end = "none" /\ n.port.end = "none" /\ n.busy.end = "none"
    BY DEF OptionsInv, Loaded
  <2>4. /\ config.packet = n.packet.val /\ config.workers = n.workers.val /\ config.busy = n.busy.val
        /\ config.host = Endpoint(input.host.val, n.port.val).host
        /\ config.port = Endpoint(input.host.val, n.port.val).port
    BY DEF OptionsInv, Loaded
  <2>5. Holds("busy") => n.busy = Read(file, input.busy, Bits32)
    <3> SUFFICES ASSUME Holds("busy") PROVE n.busy = Read(file, input.busy, Bits32)
      OBVIOUS
    <3>1. input.busy.is = "given" /\ input.busy.val >= 0
      BY DEF Holds
    <3>2. input.busy.val \in Int
      BY <2>1 DEF Number, Setting
    <3>3. ~(input.busy.is = "absent") /\ ~(input.busy.is = "wrong") /\ ~(input.busy.val < 0)
      BY <3>1, <3>2
    <3> HIDE DEF n
    <3> QED
      BY <2>2, <3>3 DEF ReadBusy
  <2> HIDE DEF n
  <2>6. \A k \in {"packet", "workers", "port", "busy"} : Holds(k) =>
           input[k].val >= 0 /\ (file => input[k].val < TwoTo(Width(k)))
    BY DEF Holds
  <2>7. /\ Holds("packet") => n.packet.val = input.packet.val
        /\ Holds("workers") => n.workers.val = input.workers.val
        /\ Holds("port") => n.port.val = input.port.val
        /\ Holds("busy") => n.busy.val = input.busy.val
    <3>1. Width("packet") = Bits32 /\ Width("busy") = Bits32 /\ Width("workers") = Bits16 /\ Width("port") = Bits16
      BY DEF Width
    <3>2. ASSUME Holds("packet") PROVE n.packet.val = input.packet.val
      BY <2>1, <2>2, <2>3, <2>6, <3>1, <3>2, ReadExact
    <3>3. ASSUME Holds("workers") PROVE n.workers.val = input.workers.val
      BY <2>1, <2>2, <2>3, <2>6, <3>1, <3>3, ReadExact
    <3>4. ASSUME Holds("port") PROVE n.port.val = input.port.val
      BY <2>1, <2>2, <2>3, <2>6, <3>1, <3>4, ReadExact
    <3>5. ASSUME Holds("busy") PROVE n.busy.val = input.busy.val
      BY <2>1, <2>3, <2>5, <2>6, <3>1, <3>5, ReadExact
    <3> QED
      BY <3>2, <3>3, <3>4, <3>5
  <2>8. \A k \in {"packet", "workers", "busy"} : Holds(k) => config[k] = input[k].val
    BY <2>4, <2>7
  <2>9. input.host.val = "v4" =>
           config.host = "configured" /\ (Holds("port") => config.port = input.port.val)
    BY <2>4, <2>7 DEF Endpoint
  <2>10. ASSUME Holds("busy"), input.busy.val < TwoTo(Bits32 - 1) PROVE BusyWait = input.busy.val
    <3>1. TwoTo(Bits32 - 1) \in Int
      <4>1. Bits32 - 1 \in Nat
        BY ConfigAssumption
      <4> QED
        BY <4>1, PowersOfTwo
    <3>2. input.busy.val \in Int
      BY <2>1 DEF Number, Setting
    <3>3. input.busy.val >= 0 /\ ~(input.busy.val >= TwoTo(Bits32 - 1))
      BY <2>6, <2>10, <3>1, <3>2
    <3>4. config.busy = input.busy.val
      BY <2>4, <2>7, <2>10
    <3> QED
      BY <3>2, <3>3, <3>4 DEF BusyWait
  <2> QED
    BY <2>8, <2>9, <2>10
<1> QED
  BY <1>1, OptionsInit, OptionsStep, PTL DEF Spec
-----------------------------------------------------------------------------
(* The whitelist. *)

\* Clearing the host bits of two addresses gives the same network exactly when
\* one is in the range of the other.
LEMMA SameNetwork ==
  ASSUME NEW a \in Nat, NEW b \in Nat, NEW m \in Nat \ {0}
  PROVE  a - (a % m) = b - (b % m) <=> (b \div m) * m <= a /\ a < (b \div m) * m + m
  OBVIOUS

\* Every entry that is not refused has a family, and an address and a prefix
\* length of this family.
Entries == EntryOf("v4") \union EntryOf("v6")

\* What a whitelist entry is made of.
LEMMA EntryTyped ==
  ASSUME NEW e \in Entries
  PROVE  /\ e.family \in Families /\ e.addr \in Nat
         /\ AddressBits[e.family] \in Nat /\ e.len \in Bare .. AddressBits[e.family]
         /\ e = [family |-> e.family, addr |-> e.addr, len |-> e.len]
<1>1. PICK f \in Families : e \in EntryOf(f)
  BY DEF Entries, Families
<1>2. AddressBits[f] \in Nat /\ TwoTo(AddressBits[f]) \in Int
  BY ConfigAssumption, PowersOfTwo
<1>3. e.family = f /\ e.addr \in Nat /\ e.len \in Bare .. AddressBits[f]
  BY <1>1, <1>2 DEF EntryOf, Addresses
<1>4. e = [family |-> e.family, addr |-> e.addr, len |-> e.len]
  BY <1>1 DEF EntryOf
<1> QED
  BY <1>2, <1>3, <1>4

\* A network that is made of an entry lets in the addresses of its range.
LEMMA NetExact ==
  ASSUME NEW e \in Entries, NEW f \in Families, NEW a \in Nat
  PROVE  (NetOf(e).family = f /\ Canonical(f, a, NetOf(e).len) = NetOf(e))
         <=> (e.family = f /\ InRange(e, a))
<1> DEFINE g == e.family
<1>1. /\ g \in Families /\ e.addr \in Nat
      /\ AddressBits[g] \in Nat /\ e.len \in Bare .. AddressBits[g]
      /\ e = [family |-> g, addr |-> e.addr, len |-> e.len]
  BY EntryTyped
<1> HIDE DEF g
<1>2. e.family = g
  BY DEF g
<1>3. CASE e.len = Bare
  <2>1. NetOf(e) = [family |-> g, addr |-> e.addr, len |-> AddressBits[g]]
    BY <1>1, <1>2, <1>3 DEF NetOf
  <2>2. Canonical(g, a, AddressBits[g]) = [family |-> g, addr |-> a, len |-> AddressBits[g]]
    <3>1. TwoTo(AddressBits[g] - AddressBits[g]) = 1
      <4>1. AddressBits[g] - AddressBits[g] = 0
        BY <1>1
      <4> QED
        BY <4>1, PowersOfTwo, Zenon
    <3>2. a - (a % 1) = a
      OBVIOUS
    <3> QED
      BY <3>1, <3>2 DEF Canonical
  <2>3. InRange(e, a) <=> a = e.addr
    <3>1. InRange(e, a) <=> (e.addr \div 1) * 1 <= a /\ a < (e.addr \div 1) * 1 + 1
      BY <1>3 DEF InRange
    <3>2. (e.addr \div 1) * 1 = e.addr
      BY <1>1
    <3> QED
      BY <1>1, <3>1, <3>2
  <2> QED
    BY <1>2, <2>1, <2>2, <2>3
<1>4. CASE e.len # Bare
  <2> DEFINE m == TwoTo(AddressBits[g] - e.len)
  <2>1. e.len \in 0 .. AddressBits[g] /\ AddressBits[g] - e.len \in 0 .. AddressBits[g]
    BY <1>1, <1>4 DEF Bare
  <2>2. m \in Nat \ {0}
    BY <1>1, <2>1, PowersOfTwo
  <2>3. NetOf(e) = [family |-> g, addr |-> e.addr - (e.addr % m), len |-> e.len]
    BY <1>2, <1>4 DEF NetOf, Canonical
  <2>4. Canonical(g, a, e.len) = [family |-> g, addr |-> a - (a % m), len |-> e.len]
    BY DEF Canonical
  <2>5. InRange(e, a) <=> (e.addr \div m) * m <= a /\ a < (e.addr \div m) * m + m
    BY <1>2, <1>4 DEF InRange
  <2> HIDE DEF m
  <2>6. a - (a % m) = e.addr - (e.addr % m) <=> InRange(e, a)
    BY <1>1, <2>2, <2>5, SameNetwork
  <2> QED
    BY <1>2, <2>3, <2>4, <2>6
<1> QED
  BY <1>3, <1>4

\* The networks are those of the first entries of the list, all of them valid.
WhitelistInv ==
    /\ input \in InputType
    /\ nets \in Seq([family : Families, addr : Int, len : Int])
    /\ Len(nets) <= Len(input.whitelist)
    /\ \A k \in 1 .. Len(nets) :
          input.whitelist[k] # Invalid /\ nets[k] = NetOf(input.whitelist[k])
    /\ step = "listening" => Len(nets) = Len(input.whitelist)

\* The entries of a list are entries.
LEMMA ListTyped ==
  ASSUME NEW i \in InputType
  PROVE  i.whitelist \in Seq(Entries \union {Invalid}) /\ Len(i.whitelist) \in Nat
<1>1. i.whitelist \in Seq(Entries \union {Invalid})
  BY DEF InputType, Entries
<1> QED
  BY <1>1, LenProperties

\* add_whitelist_entry makes a network of each entry.
LEMMA NetTyped == \A e \in Entries : NetOf(e) \in [family : Families, addr : Int, len : Int]
<1> TAKE e \in Entries
<1>1. /\ e.family \in Families /\ e.addr \in Nat
      /\ AddressBits[e.family] \in Nat /\ e.len \in Bare .. AddressBits[e.family]
      /\ e = [family |-> e.family, addr |-> e.addr, len |-> e.len]
  BY EntryTyped
<1>2. CASE e.len = Bare
  BY <1>1, <1>2 DEF NetOf
<1>3. CASE e.len # Bare
  <2>1. e.len \in 0 .. AddressBits[e.family] /\ AddressBits[e.family] - e.len \in 0 .. AddressBits[e.family]
    BY <1>1, <1>3 DEF Bare
  <2>2. TwoTo(AddressBits[e.family] - e.len) \in Nat \ {0}
    BY <1>1, <2>1, PowersOfTwo
  <2>3. e.addr - (e.addr % TwoTo(AddressBits[e.family] - e.len)) \in Int
    BY <1>1, <2>2
  <2> QED
    BY <1>1, <1>3, <2>1, <2>3 DEF NetOf, Canonical
<1> QED
  BY <1>2, <1>3

LEMMA WhitelistInit == Init => WhitelistInv
<1> SUFFICES ASSUME Init PROVE WhitelistInv
  OBVIOUS
<1>1. input \in InputType /\ nets = <<>> /\ step = "start" /\ Len(<<>>) = 0
  BY ConfigAssumption, EmptySeq DEF Init
<1>2. <<>> \in Seq([family : Families, addr : Int, len : Int])
  BY EmptySeq
<1>3. Len(input.whitelist) \in Nat
  BY <1>1, ListTyped
<1> QED
  BY <1>1, <1>2, <1>3 DEF WhitelistInv

\* One turn of the loop adds the network of the next entry to its family.
LEMMA WhitelistStep == OptionsInv /\ WhitelistInv /\ [Next]_vars => WhitelistInv'
<1> SUFFICES ASSUME OptionsInv, WhitelistInv, [Next]_vars PROVE WhitelistInv'
  OBVIOUS
<1>1. CASE Refuse
  <2>1. step' \in EndNames
    BY <1>1, EndsTyped DEF Refuse, OptionsInv, EndNames
  <2> QED
    BY <1>1, <2>1 DEF Refuse, WhitelistInv, EndNames
<1>2. CASE Load
  BY <1>2 DEF Load, WhitelistInv
<1>3. CASE AddWhitelistEntry
  <2> DEFINE e == input.whitelist[Len(nets) + 1]
  <2>1. /\ step = "whitelist" /\ Len(nets) < Len(input.whitelist) /\ input' = input
        /\ IF e = Invalid
           THEN step' = "exit" /\ UNCHANGED nets
           ELSE nets' = Append(nets, NetOf(e)) /\ UNCHANGED step
    BY <1>3 DEF AddWhitelistEntry
  <2>2. /\ Len(nets) \in Nat /\ Len(input.whitelist) \in Nat
        /\ input.whitelist \in Seq(Entries \union {Invalid})
    BY ListTyped, LenProperties DEF WhitelistInv
  <2>3. e \in Entries \union {Invalid}
    BY <2>1, <2>2, ElementOfSeq
  <2>4. CASE e = Invalid
    BY <2>1, <2>4 DEF WhitelistInv
  <2>5. CASE e # Invalid
    <3>1. nets' = Append(nets, NetOf(e)) /\ NetOf(e) \in [family : Families, addr : Int, len : Int]
      BY <2>1, <2>3, <2>5, NetTyped
    <3>2. /\ nets' \in Seq([family : Families, addr : Int, len : Int])
          /\ Len(nets') = Len(nets) + 1 /\ nets'[Len(nets) + 1] = NetOf(e)
          /\ \A k \in 1 .. Len(nets) : nets'[k] = nets[k]
      BY <3>1 DEF WhitelistInv
    <3>3. \A k \in 1 .. Len(nets') : k \in 1 .. Len(nets) \/ k = Len(nets) + 1
      BY <2>2, <3>2
    <3>4. \A k \in 1 .. Len(nets') :
             input.whitelist[k] # Invalid /\ nets'[k] = NetOf(input.whitelist[k])
      BY <2>5, <3>2, <3>3 DEF WhitelistInv
    <3>5. Len(nets') <= Len(input.whitelist)
      BY <2>1, <2>2, <3>2
    <3>6. step' # "listening"
      BY <2>1, <2>5
    <3> QED
      BY <2>1, <3>2, <3>4, <3>5, <3>6 DEF WhitelistInv
  <2> QED
    BY <2>4, <2>5
<1>4. CASE Listen
  BY <1>4 DEF Listen, WhitelistInv
<1>5. CASE UNCHANGED vars
  BY <1>5 DEF vars, WhitelistInv
<1> QED
  BY <1>1, <1>2, <1>3, <1>4, <1>5 DEF Next

\* A server that listens has understood every entry of its whitelist, and lets
\* in exactly the addresses in the range of an entry of their family, or all when
\* the list is empty: for lists of any length and addresses of any width.
THEOREM WhitelistIsExact == Spec => []WhitelistExact
<1>1. WhitelistInv => WhitelistExact
  <2> DEFINE list == ToSet(input.whitelist)
  <2> SUFFICES ASSUME WhitelistInv, step = "listening"
               PROVE  /\ Invalid \notin list
                      /\ \A f \in Families : \A a \in Addresses(f) :
                            IsIpAllowed(f, a) <=>
                                list = {} \/ \E e \in list : e.family = f /\ InRange(e, a)
    BY DEF WhitelistExact
  <2>1. PICK n \in Nat : n = Len(nets) /\ n = Len(input.whitelist)
    BY LenProperties DEF WhitelistInv
  <2>2. DOMAIN nets = 1 .. n /\ DOMAIN input.whitelist = 1 .. n
    BY <2>1, ListTyped, LenProperties DEF WhitelistInv
  <2>3. /\ list = {input.whitelist[k] : k \in 1 .. n}
        /\ ToSet(nets) = {nets[k] : k \in 1 .. n}
    BY <2>2 DEF ToSet
  <2>4. \A k \in 1 .. n : input.whitelist[k] # Invalid /\ nets[k] = NetOf(input.whitelist[k])
    BY <2>1 DEF WhitelistInv
  <2>5. \A k \in 1 .. n : input.whitelist[k] \in Entries
    <3> TAKE k \in 1 .. n
    <3>1. input.whitelist[k] \in Entries \union {Invalid}
      BY <2>1, ListTyped, ElementOfSeq DEF WhitelistInv
    <3> QED
      BY <2>4, <3>1
  <2> HIDE DEF list
  <2>6. Invalid \notin list
    BY <2>3, <2>4
  <2>7. ASSUME NEW f \in Families, NEW a \in Addresses(f)
        PROVE  IsIpAllowed(f, a) <=> list = {} \/ \E e \in list : e.family = f /\ InRange(e, a)
    <3>1. a \in Nat
      <4>1. TwoTo(AddressBits[f]) \in Int
        BY ConfigAssumption, PowersOfTwo
      <4> QED
        BY <2>7, <4>1 DEF Addresses
    <3>2. \A k \in 1 .. n : (nets[k].family = f /\ Canonical(f, a, nets[k].len) = nets[k])
                             <=> (input.whitelist[k].family = f /\ InRange(input.whitelist[k], a))
      BY <2>4, <2>5, <3>1, NetExact
    <3>3. (\E net \in ToSet(nets) : net.family = f /\ Canonical(f, a, net.len) = net)
          <=> (\E e \in list : e.family = f /\ InRange(e, a))
      BY <2>3, <3>2
    <3>4. nets = <<>> <=> n = 0
      BY <2>1, EmptySeq DEF WhitelistInv
    <3>5. list = {} <=> n = 0
      <4>1. n = 0 => 1 .. n = {}
        BY <2>1
      <4>2. n # 0 => 1 \in 1 .. n
        BY <2>1
      <4> QED
        BY <2>3, <4>1, <4>2, Zenon
    <3> QED
      BY <3>3, <3>4, <3>5 DEF IsIpAllowed
  <2> QED
    BY <2>6, <2>7
<1> QED
  BY <1>1, OptionsInit, OptionsStep, WhitelistInit, WhitelistStep, PTL DEF Spec
=============================================================================
