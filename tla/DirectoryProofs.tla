--------------------------- MODULE DirectoryProofs ---------------------------
(***************************************************************************)
(* Who is there: what the registries of consumers and the directory of     *)
(* streams keep and answer, for any consumers, streams, messages,          *)
(* capacities and times.                                                   *)
(***************************************************************************)
EXTENDS ConsumerDirectory, Discovery, SequenceTheorems, FiniteSetTheorems, WellFoundedInduction, TLAPS

-----------------------------------------------------------------------------
(* Numbers                                                                 *)

\* A set of numbers has a least one.
LEMMA LeastOf ==
    ASSUME NEW S \in SUBSET Nat, S # {}
    PROVE  \E k \in S : \A j \in S : k <= j
  <1> DEFINE R == OpToRel(<, Nat)
  <1>1. IsWellFoundedOn(R, Nat)
    BY NatLessThanWellFounded
  <1>2. \A j, k \in Nat : j < k => <<j, k>> \in R
    BY DEF OpToRel
  <1> HIDE DEF R
  <1>3. PICK k \in S : \A j \in S : ~(<<j, k>> \in R)
    BY <1>1, WFMin
  <1>4. k \in Nat /\ \A j \in S : j \in Nat /\ ~(j < k)
    BY <1>2, <1>3
  <1>5. \A j \in S : k <= j
    BY <1>4
  <1> QED BY <1>3, <1>5

\* A set of places has a last one.
LEMMA LastOf ==
    ASSUME NEW n \in Nat, NEW S \in SUBSET (1 .. n), S # {}
    PROVE  Max(S) \in S
  <1> DEFINE T == {n - j : j \in S}
  <1>1. T \subseteq Nat /\ T # {}
    <2>1. \A j \in 1 .. n : n - j \in Nat
      OBVIOUS
    <2> QED BY <2>1
  <1>t. \E m \in T : \A j \in T : m <= j
    BY <1>1, LeastOf
  <1>2. PICK k \in S : \A j \in S : n - k <= n - j
    BY <1>t
  <1>3. \E m \in S : \A j \in S : m >= j
    BY <1>2
  <1> QED BY <1>3 DEF Max

-----------------------------------------------------------------------------
(* The discovery service and its client                                    *)

\* Entries: as old as the last message heard, unless none was, with pools of the entry's
\* epoch unless a data source brought that epoch.
Names == {""} \cup {d.name : d \in Sources}
EntryRecord ==
    [epoch : Nat, producer : Nat, slots : BOOLEAN, pools : Nat, name : Names, tags : SUBSET STRING,
     age : Never .. Expiry + 1]
EntrySound(e, since, source) ==
    /\ e \in EntryRecord
    /\ e.age # Never => e.age = since
    /\ e.pools # NoPools => e.pools = e.epoch \/ source = e.epoch
EntriesSound(es, since, source) ==
    /\ DOMAIN es \subseteq Streams
    /\ \A s \in DOMAIN es : EntrySound(es[s], since[s], source[s])

\* Responses.
ResultRecord ==
    [stream : Streams, epoch : Nat, producer : Nat, slots : BOOLEAN, pools : Nat, name : Names, tags : SUBSET STRING]
Body == [status : {"NONE", "OK", "ERROR"}, id : Nat, results : SUBSET ResultRecord]
Response == [frame : {"good", "newer"}, template : {"RESPONSE"}, body : Body]

\* The inductive invariant of the service and its client.
AnswersInv ==
    /\ heard \in [Streams -> 0 .. Expiry + 1] /\ named \in [Streams -> Nat]
    /\ EntriesSound(entries, heard, named)
    /\ wire \in Seq(Response) /\ Len(wire) <= MaxWire
    /\ asked \in Nat /\ waiting \in {0, asked}
    /\ out \in Body
    /\ AnswerIsUsable

\* Another entry of a stream, which was heard of just now or not.
LEMMA PutSound ==
    ASSUME AnswersInv, NEW s \in Streams, NEW e, NEW since, NEW source,
           since \in [Streams -> 0 .. Expiry + 1], source \in [Streams -> Nat],
           \A t \in Streams : t # s => since[t] = heard[t] /\ source[t] = named[t],
           EntrySound(e, since[s], source[s])
    PROVE  EntriesSound(Put(s, e), since, source)
  <1>1. DOMAIN Put(s, e) = DOMAIN entries \cup {s}
    BY DEF Put
  <1>2. \A t \in DOMAIN Put(s, e) : Put(s, e)[t] = IF t = s THEN e ELSE entries[t]
    BY DEF Put
  <1>3. DOMAIN entries \subseteq Streams /\ \A t \in DOMAIN entries : EntrySound(entries[t], heard[t], named[t])
    BY DEF AnswersInv, EntriesSound
  <1>4. ASSUME NEW t \in DOMAIN Put(s, e) PROVE EntrySound(Put(s, e)[t], since[t], source[t])
    <2>1. CASE t = s
      BY <1>2, <2>1
    <2>2. CASE t # s
      BY <1>1, <1>2, <1>3, <2>2
    <2> QED BY <2>1, <2>2
  <1> QED BY <1>1, <1>3, <1>4 DEF EntriesSound

\* The entry of a stream, or a new one.
LEMMA ReservedSound ==
    ASSUME AnswersInv, NEW s \in Streams
    PROVE  EntrySound(Reserved(s), heard[s], named[s])
  <1>1. CASE s \in DOMAIN entries
    BY <1>1 DEF AnswersInv, EntriesSound, Reserved
  <1>2. CASE s \notin DOMAIN entries
    <2>1. Reserved(s) = NewEntry
      BY <1>2 DEF Reserved
    <2>2. NewEntry \in EntryRecord /\ NewEntry.age = Never /\ NewEntry.pools = NoPools
      <3>1. 0 \in Nat /\ Never \in Never .. Expiry + 1 /\ NoPools \in Nat
        BY DiscoveryAssumption DEF Never, NoPools
      <3>2. {} \in SUBSET STRING /\ FALSE \in BOOLEAN
        OBVIOUS
      <3>3. "" \in Names
        BY DEF Names
      <3> QED BY <3>1, <3>2, <3>3 DEF NewEntry, EntryRecord
    <2> QED BY <2>1, <2>2 DEF EntrySound
  <1> QED BY <1>1, <1>2

\* Fewer entries.
LEMMA PrunedSound ==
    ASSUME AnswersInv
    PROVE  /\ EntriesSound(PruneExpired(entries), heard, named)
           /\ \A s \in DOMAIN PruneExpired(entries) : s \in DOMAIN entries /\ PruneExpired(entries)[s] = entries[s]
  <1>1. \A s \in DOMAIN PruneExpired(entries) : s \in DOMAIN entries /\ PruneExpired(entries)[s] = entries[s]
    BY DEF PruneExpired
  <1> QED BY <1>1 DEF AnswersInv, EntriesSound

\* What a service step leaves alone.
LEMMA ClientRests ==
    ASSUME AnswersInv, UNCHANGED <<wire, asked, waiting, out>>,
           heard' \in [Streams -> 0 .. Expiry + 1], named' \in [Streams -> Nat], EntriesSound(entries', heard', named')
    PROVE  AnswersInv'
  BY DEF AnswersInv, AnswerIsUsable

\* What an announce, a data source or an operator's tags make of an entry.
LEMMA ApplyAnnounceStep ==
    ASSUME AnswersInv, NEW a \in Announces, ApplyAnnounce(a)
    PROVE  /\ AnswersInv' /\ wire' = wire
           /\ \A s \in DOMAIN entries \cap DOMAIN entries' : entries'[s].epoch >= entries[s].epoch
  <1> DEFINE s == a.stream
             e == Reserved(s)
             cleared == [e EXCEPT !.epoch = a.epoch, !.producer = a.producer, !.slots = TRUE, !.tags = {}, !.pools = NoPools]
             fresh == [cleared EXCEPT !.pools = a.epoch, !.age = 0]
  <1>1. s \in Streams /\ a.epoch \in Nat /\ a.producer \in Nat
    BY DiscoveryAssumption
  <1>2. EntrySound(e, heard[s], named[s]) /\ e \in EntryRecord
    BY <1>1, ReservedSound DEF EntrySound
  <1>3. /\ UNCHANGED <<wire, asked, waiting, out, named>>
        /\ \/ UNCHANGED <<entries, heard>>
           \/ ~Outdated(e, a.epoch) /\ entries' = Put(s, cleared) /\ UNCHANGED heard
           \/ ~Outdated(e, a.epoch) /\ entries' = Put(s, fresh) /\ heard' = [heard EXCEPT ![s] = 0]
    BY DEF ApplyAnnounce
  <1>4. heard \in [Streams -> 0 .. Expiry + 1] /\ named \in [Streams -> Nat] /\ EntriesSound(entries, heard, named)
    BY DEF AnswersInv
  <1> HIDE DEF e
  <1>5. /\ cleared \in EntryRecord /\ cleared.pools = NoPools /\ cleared.age = e.age /\ cleared.epoch = a.epoch
    <2>1. {} \in SUBSET STRING /\ TRUE \in BOOLEAN /\ NoPools \in Nat
      BY DEF NoPools
    <2> QED BY <1>1, <1>2, <2>1 DEF EntryRecord
  <1> HIDE DEF cleared
  <1>6. fresh \in EntryRecord /\ fresh.pools = a.epoch /\ fresh.epoch = a.epoch /\ fresh.age = 0
    <2>1. 0 \in Never .. Expiry + 1
      BY DiscoveryAssumption DEF Never
    <2> QED BY <1>1, <1>5, <2>1 DEF EntryRecord
  <1> HIDE DEF fresh
  <1>7. CASE UNCHANGED <<entries, heard>>
    <2>1. \A t \in DOMAIN entries : entries[t].epoch \in Nat
      BY <1>4 DEF EntriesSound, EntrySound, EntryRecord
    <2> QED BY <1>3, <1>4, <1>7, <2>1, ClientRests
  <1>8. ASSUME NEW x \in EntryRecord, ~Outdated(e, a.epoch), entries' = Put(s, x), x.epoch = a.epoch
        PROVE  \A t \in DOMAIN entries \cap DOMAIN entries' : entries'[t].epoch >= entries[t].epoch
    <2> SUFFICES ASSUME NEW t \in DOMAIN entries, t \in DOMAIN entries' PROVE entries'[t].epoch >= entries[t].epoch
      OBVIOUS
    <2>1. entries[t].epoch \in Nat
      BY <1>4 DEF EntriesSound, EntrySound, EntryRecord
    <2>2. entries'[t] = IF t = s THEN x ELSE entries[t]
      BY <1>8 DEF Put
    <2>3. CASE t = s
      <3>1. e = entries[s]
        BY <2>3 DEF Reserved, e
      <3> QED BY <1>1, <1>8, <2>1, <2>2, <2>3, <3>1 DEF Outdated
    <2> QED BY <2>1, <2>2, <2>3
  <1>9. CASE ~Outdated(e, a.epoch) /\ entries' = Put(s, cleared) /\ UNCHANGED heard
    <2>1. EntrySound(cleared, heard[s], named[s])
      BY <1>2, <1>5 DEF EntrySound
    <2>2. EntriesSound(entries', heard, named)
      BY <1>1, <1>4, <1>9, <2>1, PutSound
    <2> QED BY <1>3, <1>4, <1>5, <1>8, <1>9, <2>2, ClientRests
  <1>10. CASE ~Outdated(e, a.epoch) /\ entries' = Put(s, fresh) /\ heard' = [heard EXCEPT ![s] = 0]
    <2>1. /\ heard' \in [Streams -> 0 .. Expiry + 1] /\ heard'[s] = 0
          /\ \A t \in Streams : t # s => heard'[t] = heard[t]
      BY <1>1, <1>4, <1>10, DiscoveryAssumption
    <2>2. EntrySound(fresh, heard'[s], named[s])
      BY <1>6, <2>1 DEF EntrySound
    <2>3. EntriesSound(entries', heard', named)
      BY <1>1, <1>4, <1>10, <2>1, <2>2, PutSound
    <2> QED BY <1>3, <1>4, <1>6, <1>8, <1>10, <2>1, <2>3, ClientRests
  <1> QED BY <1>3, <1>7, <1>9, <1>10

\* The service hears a stream's name.
LEMMA ApplyDataSourceStep ==
    ASSUME AnswersInv, NEW d \in Sources, ApplyDataSource(d)
    PROVE  /\ AnswersInv' /\ wire' = wire
           /\ \A s \in DOMAIN entries \cap DOMAIN entries' : entries'[s].epoch >= entries[s].epoch
  <1> DEFINE s == d.stream
             e == Reserved(s)
             x == [e EXCEPT !.producer = d.producer, !.epoch = d.epoch, !.name = d.name, !.age = 0]
  <1>1. s \in Streams /\ d.epoch \in Nat /\ d.producer \in Nat /\ d.name \in Names
    BY DiscoveryAssumption DEF Names
  <1>2. EntrySound(e, heard[s], named[s]) /\ e \in EntryRecord
    BY <1>1, ReservedSound DEF EntrySound
  <1>3. /\ UNCHANGED <<wire, asked, waiting, out>> /\ ~Outdated(e, d.epoch) /\ entries' = Put(s, x)
        /\ heard' = [heard EXCEPT ![s] = 0] /\ named' = [named EXCEPT ![s] = d.epoch]
    BY DEF ApplyDataSource
  <1>4. heard \in [Streams -> 0 .. Expiry + 1] /\ named \in [Streams -> Nat] /\ EntriesSound(entries, heard, named)
    BY DEF AnswersInv
  <1>5. /\ heard' \in [Streams -> 0 .. Expiry + 1] /\ heard'[s] = 0 /\ named' \in [Streams -> Nat] /\ named'[s] = d.epoch
        /\ \A t \in Streams : t # s => heard'[t] = heard[t] /\ named'[t] = named[t]
    BY <1>1, <1>3, <1>4, DiscoveryAssumption
  <1> HIDE DEF e
  <1>6. x \in EntryRecord /\ x.epoch = d.epoch /\ x.age = 0
    <2>1. 0 \in Never .. Expiry + 1
      BY DiscoveryAssumption DEF Never
    <2> QED BY <1>1, <1>2, <2>1 DEF EntryRecord
  <1> HIDE DEF x
  <1>7. EntrySound(x, heard'[s], named'[s])
    BY <1>5, <1>6 DEF EntrySound
  <1>8. EntriesSound(entries', heard', named')
    BY <1>1, <1>3, <1>5, <1>7, PutSound
  <1>9. \A t \in DOMAIN entries \cap DOMAIN entries' : entries'[t].epoch >= entries[t].epoch
    <2> SUFFICES ASSUME NEW t \in DOMAIN entries, t \in DOMAIN entries' PROVE entries'[t].epoch >= entries[t].epoch
      OBVIOUS
    <2>1. entries[t].epoch \in Nat
      BY <1>4 DEF EntriesSound, EntrySound, EntryRecord
    <2>2. entries'[t] = IF t = s THEN x ELSE entries[t]
      BY <1>3 DEF Put
    <2>3. CASE t = s
      <3>1. e = entries[s]
        BY <2>3 DEF Reserved, e
      <3> QED BY <1>1, <1>3, <1>6, <2>1, <2>2, <2>3, <3>1 DEF Outdated
    <2> QED BY <2>1, <2>2, <2>3
  <1> QED BY <1>3, <1>5, <1>8, <1>9, ClientRests

\* The service is given a stream's tags.
LEMMA SetTagsStep ==
    ASSUME AnswersInv, NEW s \in Streams, NEW tags \in SUBSET STRING, SetTags(s, tags)
    PROVE  /\ AnswersInv' /\ wire' = wire
           /\ \A t \in DOMAIN entries \cap DOMAIN entries' : entries'[t].epoch >= entries[t].epoch
  <1> DEFINE e == Reserved(s)
             x == [e EXCEPT !.tags = tags, !.age = 0]
  <1>1. EntrySound(e, heard[s], named[s]) /\ e \in EntryRecord
    BY ReservedSound DEF EntrySound
  <1>2. UNCHANGED <<wire, asked, waiting, out, named>> /\ entries' = Put(s, x) /\ heard' = [heard EXCEPT ![s] = 0]
    BY DEF SetTags
  <1>3. heard \in [Streams -> 0 .. Expiry + 1] /\ named \in [Streams -> Nat] /\ EntriesSound(entries, heard, named)
    BY DEF AnswersInv
  <1>4. heard' \in [Streams -> 0 .. Expiry + 1] /\ heard'[s] = 0 /\ \A t \in Streams : t # s => heard'[t] = heard[t]
    BY <1>2, <1>3, DiscoveryAssumption
  <1> HIDE DEF e
  <1>5. x \in EntryRecord /\ x.epoch = e.epoch /\ x.pools = e.pools /\ x.age = 0
    <2>1. 0 \in Never .. Expiry + 1
      BY DiscoveryAssumption DEF Never
    <2> QED BY <1>1, <2>1 DEF EntryRecord
  <1> HIDE DEF x
  <1>6. EntrySound(x, heard'[s], named[s])
    BY <1>1, <1>4, <1>5 DEF EntrySound
  <1>7. EntriesSound(entries', heard', named)
    BY <1>2, <1>3, <1>4, <1>6, PutSound
  <1>8. \A t \in DOMAIN entries \cap DOMAIN entries' : entries'[t].epoch >= entries[t].epoch
    <2> SUFFICES ASSUME NEW t \in DOMAIN entries, t \in DOMAIN entries' PROVE entries'[t].epoch >= entries[t].epoch
      OBVIOUS
    <2>1. entries[t].epoch \in Nat
      BY <1>3 DEF EntriesSound, EntrySound, EntryRecord
    <2>2. entries'[t] = IF t = s THEN x ELSE entries[t]
      BY <1>2 DEF Put
    <2>3. CASE t = s
      <3>1. e = entries[s]
        BY <2>3 DEF Reserved, e
      <3> QED BY <1>5, <2>1, <2>2, <2>3, <3>1
    <2> QED BY <2>1, <2>2, <2>3
  <1> QED BY <1>2, <1>3, <1>4, <1>7, <1>8, ClientRests

\* The entries of a step that only forgets some: no epoch changes.
LEMMA EpochsKept ==
    ASSUME AnswersInv, \A s \in DOMAIN entries' : s \in DOMAIN entries => entries'[s].epoch = entries[s].epoch
    PROVE  \A s \in DOMAIN entries \cap DOMAIN entries' : entries'[s].epoch >= entries[s].epoch
  <1>1. \A s \in DOMAIN entries : entries[s].epoch \in Nat
    BY DEF AnswersInv, EntriesSound, EntrySound, EntryRecord
  <1> QED BY <1>1

\* What a query finds was heard of within the expiry time.
LEMMA QuerySound ==
    ASSUME AnswersInv, NEW id \in Nat, NEW f, NEW r, r = Query(id, f, PruneExpired(entries))
    PROVE  /\ r \in Body
           /\ \A x \in r.results : heard[x.stream] <= Expiry
  <1> DEFINE es == PruneExpired(entries)
             listed == {s \in DOMAIN es : es[s].age # Never /\ ~Expired(es[s]) /\ Matches(s, es[s], f)}
             found == {Result(s, es[s]) : s \in listed}
  <1>1. /\ EntriesSound(es, heard, named) /\ heard \in [Streams -> 0 .. Expiry + 1]
    BY PrunedSound DEF AnswersInv
  <1>2. \/ r = [status |-> "ERROR", id |-> id, results |-> {}]
        \/ r = [status |-> "OK", id |-> id, results |-> found]
    BY DEF Query
  <1> HIDE DEF es
  <1>3. \A s \in listed : s \in Streams /\ es[s] \in EntryRecord /\ heard[s] <= Expiry
    <2> TAKE s \in listed
    <2>1. s \in Streams /\ EntrySound(es[s], heard[s], named[s]) /\ es[s].age # Never /\ ~(es[s].age > Expiry)
      BY <1>1 DEF EntriesSound, Expired
    <2>2. es[s] \in EntryRecord /\ heard[s] = es[s].age
      BY <2>1 DEF EntrySound
    <2>3. es[s].age \in Int
      BY <2>2, DiscoveryAssumption DEF EntryRecord, Never
    <2> QED BY <2>1, <2>2, <2>3, DiscoveryAssumption
  <1>4. \A s \in listed : Result(s, es[s]) \in ResultRecord /\ Result(s, es[s]).stream = s
    <2> TAKE s \in listed
    <2>1. s \in Streams /\ es[s] \in EntryRecord
      BY <1>3
    <2> QED BY <2>1 DEF Result, EntryRecord, ResultRecord
  <1> HIDE DEF listed
  <1>5. found \in SUBSET ResultRecord /\ \A x \in found : heard[x.stream] <= Expiry
    BY <1>3, <1>4
  <1> HIDE DEF found
  <1> QED BY <1>2, <1>5 DEF Body

\* A response put on the wire.
LEMMA WireExtended ==
    ASSUME AnswersInv, NEW m \in Response, Len(wire) < MaxWire
    PROVE  /\ Append(wire, m) \in Seq(Response) /\ Len(Append(wire, m)) = Len(wire) + 1 /\ Len(Append(wire, m)) <= MaxWire
           /\ Append(wire, m)[Len(wire) + 1] = m /\ Len(wire) \in Nat
           /\ DOMAIN Append(wire, m) = 1 .. Len(wire) + 1
  <1>1. wire \in Seq(Response) /\ Len(wire) \in Nat
    BY LenProperties DEF AnswersInv
  <1>2. /\ Append(wire, m) \in Seq(Response) /\ Len(Append(wire, m)) = Len(wire) + 1
        /\ Append(wire, m)[Len(wire) + 1] = m /\ DOMAIN Append(wire, m) = 1 .. Len(wire) + 1
    BY <1>1, AppendProperties, LenProperties
  <1> QED BY <1>1, <1>2, DiscoveryAssumption

\* A request is answered, or the answer is lost; entries too old are forgotten on the way.
LEMMA HandleRequestStep ==
    ASSUME AnswersInv, NEW id \in Nat, NEW f, HandleRequest(id, f)
    PROVE  /\ AnswersInv' /\ \A r \in NewResponses : \A x \in r.results : heard[x.stream] <= Expiry
           /\ \A s \in DOMAIN entries \cap DOMAIN entries' : entries'[s].epoch >= entries[s].epoch
  <1>1. PICK r : r = Query(id, f, PruneExpired(entries))
    OBVIOUS
  <1> DEFINE m == [frame |-> "good", template |-> "RESPONSE", body |-> r]
  <1>2. /\ entries' = PruneExpired(entries) /\ UNCHANGED <<asked, waiting, waited, out, heard, named>>
        /\ (Len(wire) < MaxWire /\ wire' = Append(wire, m)) \/ UNCHANGED wire
    BY <1>1 DEF HandleRequest
  <1>3. r \in Body /\ \A x \in r.results : heard[x.stream] <= Expiry
    BY <1>1, QuerySound
  <1>4. m \in Response /\ m.body = r
    BY <1>3 DEF Response
  <1> HIDE DEF m
  <1>5. EntriesSound(entries', heard', named')
    BY <1>2, PrunedSound
  <1>6. \A s \in DOMAIN entries' : s \in DOMAIN entries => entries'[s].epoch = entries[s].epoch
    BY <1>2, PrunedSound
  <1>7. CASE Len(wire) < MaxWire /\ wire' = Append(wire, m)
    <2>1. /\ wire' \in Seq(Response) /\ Len(wire') <= MaxWire /\ wire'[Len(wire) + 1] = m /\ Len(wire) \in Nat
          /\ DOMAIN wire' = 1 .. Len(wire) + 1
      BY <1>4, <1>7, WireExtended
    <2>2. AnswersInv'
      BY <1>2, <1>5, <2>1 DEF AnswersInv, AnswerIsUsable
    <2>3. \A j \in DOMAIN wire' : j > Len(wire) => wire'[j].body = r
      BY <1>4, <2>1
    <2>4. \A x \in NewResponses : x = r
      BY <2>3 DEF NewResponses
    <2> QED BY <1>3, <1>6, <2>2, <2>4, EpochsKept
  <1>8. CASE UNCHANGED wire
    <2>1. AnswersInv'
      BY <1>2, <1>5, <1>8 DEF AnswersInv, AnswerIsUsable
    <2>2. wire \in Seq(Response)
      BY DEF AnswersInv
    <2>3. \A j \in DOMAIN wire : ~(j > Len(wire))
      BY <2>2, LenProperties
    <2>4. NewResponses = {}
      BY <1>8, <2>3 DEF NewResponses
    <2> QED BY <1>6, <2>1, <2>4, EpochsKept
  <1> QED BY <1>2, <1>7, <1>8

\* A step after which nothing new is on the wire.
LEMMA NothingNew ==
    ASSUME AnswersInv, wire' \in Seq(Response), Len(wire') <= Len(wire)
    PROVE  NewResponses = {}
  <1>1. Len(wire) \in Nat /\ Len(wire') \in Nat /\ DOMAIN wire' = 1 .. Len(wire')
    BY LenProperties DEF AnswersInv
  <1>2. \A j \in DOMAIN wire' : ~(j > Len(wire))
    BY <1>1
  <1> QED BY <1>2 DEF NewResponses

\* The service forgets streams it has not heard of.
LEMMA PruneStep ==
    ASSUME AnswersInv, Prune
    PROVE  /\ AnswersInv' /\ wire' = wire
           /\ \A s \in DOMAIN entries \cap DOMAIN entries' : entries'[s].epoch >= entries[s].epoch
  <1>1. entries' = PruneExpired(entries) /\ UNCHANGED <<wire, asked, waiting, waited, out, heard, named>>
    BY DEF Prune
  <1>2. EntriesSound(entries', heard', named')
    BY <1>1, PrunedSound
  <1>3. \A s \in DOMAIN entries' : s \in DOMAIN entries => entries'[s].epoch = entries[s].epoch
    BY <1>1, PrunedSound
  <1>4. AnswersInv'
    BY <1>1, <1>2 DEF AnswersInv, AnswerIsUsable
  <1> QED BY <1>1, <1>3, <1>4, EpochsKept

\* The client asks.
LEMMA SendRequestStep ==
    ASSUME AnswersInv, SendRequest
    PROVE  AnswersInv' /\ wire' = wire /\ entries' = entries
  <1>1. /\ asked' = asked + 1 /\ waiting' = asked + 1 /\ out' = Blank /\ UNCHANGED <<entries, wire, heard, named>>
    BY DEF SendRequest
  <1>2. Blank \in Body /\ Blank.status # "OK"
    BY DEF Blank, Body
  <1> QED BY <1>1, <1>2 DEF AnswersInv, AnswerIsUsable

\* A turn of the client's loop takes some of the messages; only an answer to the request
\* it waits for is filled in.
LEMMA ClientPollStep ==
    ASSUME AnswersInv, ClientPoll
    PROVE  AnswersInv' /\ Len(wire') <= Len(wire) /\ entries' = entries
  <1>1. PICK n \in 0 .. Len(wire) :
            /\ waiting # 0 /\ out' = OutAfter(n) /\ wire' = SubSeq(wire, n + 1, Len(wire))
            /\ waiting' \in {0, waiting} /\ UNCHANGED <<entries, asked, heard, named>>
    BY DEF ClientPoll
  <1>2. wire \in Seq(Response) /\ Len(wire) \in Nat /\ DOMAIN wire = 1 .. Len(wire) /\ Len(wire) <= MaxWire
    BY LenProperties DEF AnswersInv
  <1>3. wire' \in Seq(Response) /\ Len(wire') <= Len(wire)
    <2>1. n + 1 \in Int /\ Len(wire) \in Int /\ \A i \in n + 1 .. Len(wire) : wire[i] \in Response
      BY <1>1, <1>2, LenProperties
    <2>2. wire' \in Seq(Response) /\ Len(wire') = IF n + 1 <= Len(wire) THEN Len(wire) - (n + 1) + 1 ELSE 0
      BY <1>1, <2>1, SubSeqProperties
    <2> QED BY <1>1, <1>2, <2>2
  <1>4. waiting = asked /\ asked \in Nat /\ out \in Body /\ AnswerIsUsable
    BY <1>1 DEF AnswersInv
  <1>5. out' \in Body /\ AnswerIsUsable'
    <2>1. CASE Decodes(n, waiting) = {}
      <3>1. out' = out
        BY <1>1, <2>1 DEF OutAfter
      <3> QED BY <1>1, <1>4, <3>1 DEF AnswerIsUsable
    <2>2. CASE Decodes(n, waiting) # {}
      <3>1. Decodes(n, waiting) \in SUBSET (1 .. n) /\ n \in Nat
        BY <1>1, <1>2 DEF Decodes
      <3>2. PICK i \in Decodes(n, waiting) : out' = Filled(wire[i].body)
        BY <1>1, <2>2, <3>1, LastOf DEF OutAfter
      <3>3. DecodeResponse(wire[i], waiting) = "ok" /\ i \in 1 .. Len(wire)
        BY <1>1, <1>2, <3>2 DEF Decodes
      <3>4. PICK b : b = wire[i].body
        OBVIOUS
      <3>5. b \in Body
        <4>1. wire[i] \in Response
          BY <1>2, <3>3, LenProperties
        <4> QED BY <3>4, <4>1 DEF Response
      <3>6. b.id = asked
        BY <1>1, <1>4, <3>3, <3>4 DEF DecodeResponse, Decode
      <3>7. CASE b.status = "OK" /\ \E r \in b.results : ~ResultValid(r)
        <4>1. out' = [b EXCEPT !.status = "ERROR"]
          BY <3>2, <3>4, <3>7 DEF Filled
        <4>2. out' \in Body /\ out'.status = "ERROR"
          BY <3>5, <4>1 DEF Body
        <4> QED BY <4>2 DEF AnswerIsUsable
      <3>8. CASE ~(b.status = "OK" /\ \E r \in b.results : ~ResultValid(r))
        <4>1. out' = b
          BY <3>2, <3>4, <3>8 DEF Filled
        <4>2. b.status = "OK" => \A r \in b.results : r.pools # NoPools
          BY <3>8 DEF ResultValid
        <4> QED BY <1>1, <3>5, <3>6, <4>1, <4>2 DEF AnswerIsUsable
      <3> QED BY <3>7, <3>8
    <2> QED BY <2>1, <2>2
  <1>6. Len(wire') <= MaxWire
    BY <1>2, <1>3, LenProperties, DiscoveryAssumption
  <1>7. waiting' \in {0, asked'} /\ asked' \in Nat
    BY <1>1, <1>4
  <1> QED BY <1>1, <1>3, <1>5, <1>6, <1>7 DEF AnswersInv

\* The client meets a frame that is not for it.
LEMMA ForeignFrameStep ==
    ASSUME AnswersInv, ForeignFrame
    PROVE  AnswersInv' /\ NewResponses = {} /\ entries' = entries
  <1> DEFINE m == [frame |-> "newer", template |-> "RESPONSE", body |-> Blank]
  <1>1. Len(wire) < MaxWire /\ wire' = Append(wire, m) /\ UNCHANGED <<entries, asked, waiting, waited, out, heard, named>>
    BY DEF ForeignFrame
  <1>2. Blank \in Body
    BY DEF Blank, Body
  <1>3. m \in Response /\ m.frame = "newer"
    BY <1>2 DEF Response
  <1> HIDE DEF m
  <1>4. /\ wire' \in Seq(Response) /\ Len(wire') <= MaxWire /\ wire'[Len(wire) + 1] = m /\ Len(wire) \in Nat
        /\ DOMAIN wire' = 1 .. Len(wire) + 1
    BY <1>1, <1>3, WireExtended
  <1>5. \A j \in DOMAIN wire' : j > Len(wire) => wire'[j].frame # "good"
    BY <1>3, <1>4
  <1>6. NewResponses = {}
    BY <1>5 DEF NewResponses
  <1> QED BY <1>1, <1>4, <1>6 DEF AnswersInv, AnswerIsUsable

\* Entries and history age alike.
LEMMA DiscoveryTickStep ==
    ASSUME AnswersInv, Tick
    PROVE  /\ AnswersInv' /\ wire' = wire
           /\ \A s \in DOMAIN entries \cap DOMAIN entries' : entries'[s].epoch >= entries[s].epoch
  <1>1. /\ entries' = [s \in DOMAIN entries |->
                        IF entries[s].age = Never THEN entries[s] ELSE [entries[s] EXCEPT !.age = Older(@)]]
        /\ heard' = [s \in Streams |-> Older(heard[s])] /\ UNCHANGED <<wire, asked, waiting, out, named>>
    BY DEF Tick
  <1>2. heard \in [Streams -> 0 .. Expiry + 1] /\ named \in [Streams -> Nat] /\ EntriesSound(entries, heard, named)
    BY DEF AnswersInv
  <1>3. \A n \in 0 .. Expiry + 1 : Older(n) \in 0 .. Expiry + 1
    BY DiscoveryAssumption DEF Older
  <1>4. heard' \in [Streams -> 0 .. Expiry + 1] /\ \A s \in Streams : heard'[s] = Older(heard[s])
    BY <1>1, <1>2, <1>3
  <1>5. ASSUME NEW s \in DOMAIN entries
        PROVE  EntrySound(entries'[s], heard'[s], named[s]) /\ entries'[s].epoch = entries[s].epoch
    <2>1. s \in Streams /\ EntrySound(entries[s], heard[s], named[s]) /\ entries[s] \in EntryRecord
      BY <1>2 DEF EntriesSound, EntrySound
    <2>2. CASE entries[s].age = Never
      <3>1. entries'[s] = entries[s]
        BY <1>1, <2>2
      <3> QED BY <2>1, <2>2, <3>1 DEF EntrySound
    <2>3. CASE entries[s].age # Never
      <3>1. entries[s].age = heard[s] /\ heard[s] \in 0 .. Expiry + 1
        BY <1>2, <2>1, <2>3 DEF EntrySound
      <3>2. PICK o \in 0 .. Expiry + 1 : o = Older(heard[s])
        BY <1>3, <3>1
      <3>3. entries'[s] = [entries[s] EXCEPT !.age = o]
        BY <1>1, <2>3, <3>1, <3>2
      <3>4. o \in Never .. Expiry + 1
        BY DiscoveryAssumption DEF Never
      <3>5. /\ entries'[s] \in EntryRecord /\ entries'[s].age = o /\ entries'[s].epoch = entries[s].epoch
            /\ entries'[s].pools = entries[s].pools
        BY <2>1, <3>3, <3>4 DEF EntryRecord
      <3>6. heard'[s] = o
        BY <1>4, <2>1, <3>2
      <3> QED BY <2>1, <3>5, <3>6 DEF EntrySound
    <2> QED BY <2>2, <2>3
  <1>6. DOMAIN entries' = DOMAIN entries
    BY <1>1
  <1>7. EntriesSound(entries', heard', named')
    BY <1>1, <1>2, <1>5, <1>6 DEF EntriesSound
  <1>8. AnswersInv'
    BY <1>1, <1>2, <1>4, <1>7, ClientRests
  <1> QED BY <1>1, <1>5, <1>6, <1>8, EpochsKept

\* No entry, no answer, no request.
LEMMA AnswersInitial == Init => AnswersInv
  <1> SUFFICES ASSUME Init PROVE AnswersInv
    OBVIOUS
  <1>1. /\ DOMAIN entries = {} /\ wire = <<>> /\ asked = 0 /\ waiting = 0 /\ out = Blank
        /\ heard = [s \in Streams |-> Expiry + 1] /\ named = [s \in Streams |-> 0]
    BY DEF Init
  <1>2. heard \in [Streams -> 0 .. Expiry + 1] /\ named \in [Streams -> Nat]
    BY <1>1, DiscoveryAssumption
  <1>3. EntriesSound(entries, heard, named)
    BY <1>1 DEF EntriesSound
  <1>4. wire \in Seq(Response) /\ Len(wire) <= MaxWire
    BY <1>1, EmptySeq, DiscoveryAssumption
  <1>5. Blank \in Body /\ Blank.status # "OK"
    BY DEF Blank, Body
  <1> QED BY <1>1, <1>2, <1>3, <1>4, <1>5 DEF AnswersInv, AnswerIsUsable

\* Every step keeps the invariant, no entry goes back to an earlier epoch, and what is
\* newly on the wire lists streams heard of.
LEMMA AnswersStep ==
    ASSUME AnswersInv, Next
    PROVE  /\ AnswersInv' /\ \A r \in NewResponses : \A x \in r.results : heard[x.stream] <= Expiry
           /\ \A s \in DOMAIN entries \cap DOMAIN entries' : entries'[s].epoch >= entries[s].epoch
  <1>1. wire \in Seq(Response) /\ Len(wire) \in Nat
    BY LenProperties DEF AnswersInv
  <1>2. wire' = wire => NewResponses = {}
    BY <1>1, NothingNew
  <1>3. entries' = entries => \A s \in DOMAIN entries \cap DOMAIN entries' : entries'[s].epoch >= entries[s].epoch
    BY EpochsKept
  <1>4. ASSUME NEW a \in Announces, ApplyAnnounce(a)
        PROVE  /\ AnswersInv' /\ NewResponses = {}
               /\ \A s \in DOMAIN entries \cap DOMAIN entries' : entries'[s].epoch >= entries[s].epoch
    BY <1>2, <1>4, ApplyAnnounceStep
  <1>5. ASSUME NEW d \in Sources, ApplyDataSource(d)
        PROVE  /\ AnswersInv' /\ NewResponses = {}
               /\ \A s \in DOMAIN entries \cap DOMAIN entries' : entries'[s].epoch >= entries[s].epoch
    BY <1>2, <1>5, ApplyDataSourceStep
  <1>6. ASSUME NEW t \in Taggings, SetTags(t.stream, t.tags)
        PROVE  /\ AnswersInv' /\ NewResponses = {}
               /\ \A s \in DOMAIN entries \cap DOMAIN entries' : entries'[s].epoch >= entries[s].epoch
    <2>1. t.stream \in Streams /\ t.tags \in SUBSET STRING
      BY DiscoveryAssumption
    <2> QED BY <1>2, <1>6, <2>1, SetTagsStep
  <1>7. ASSUME NEW id \in 1 .. asked, NEW f \in Filters, HandleRequest(id, f)
        PROVE  /\ AnswersInv' /\ \A r \in NewResponses : \A x \in r.results : heard[x.stream] <= Expiry
               /\ \A s \in DOMAIN entries \cap DOMAIN entries' : entries'[s].epoch >= entries[s].epoch
    <2>1. id \in Nat
      BY DEF AnswersInv
    <2> QED BY <1>7, <2>1, HandleRequestStep
  <1>8. CASE Prune
    BY <1>2, <1>8, PruneStep
  <1>9. CASE SendRequest
    BY <1>2, <1>3, <1>9, SendRequestStep
  <1>10. CASE ClientPoll
    <2>1. AnswersInv' /\ Len(wire') <= Len(wire) /\ entries' = entries
      BY <1>10, ClientPollStep
    <2>2. wire' \in Seq(Response)
      BY <2>1 DEF AnswersInv
    <2> QED BY <1>3, <2>1, <2>2, NothingNew
  <1>11. CASE ForeignFrame
    BY <1>3, <1>11, ForeignFrameStep
  <1>12. CASE Tick
    BY <1>2, <1>12, DiscoveryTickStep
  <1> QED BY <1>4, <1>5, <1>6, <1>7, <1>8, <1>9, <1>10, <1>11, <1>12 DEF Next

\* The invariant holds of every behaviour.
LEMMA AnswersInvariant == Spec => []AnswersInv
  <1>1. AnswersInv /\ [Next]_vars => AnswersInv'
    <2> SUFFICES ASSUME AnswersInv, [Next]_vars PROVE AnswersInv'
      OBVIOUS
    <2>1. CASE UNCHANGED vars
      BY <2>1 DEF AnswersInv, AnswerIsUsable, vars
    <2> QED BY <2>1, AnswersStep
  <1> QED BY <1>1, AnswersInitial, PTL DEF Spec

\* Whatever announcements, tags, requests and answers cross each other on the way, pools
\* listed with an epoch were announced with it or overtaken by a data source, and what a
\* poll returns as a success answers its own request with complete streams.
THEOREM AnswersCorrect == Spec => []AnswersSound
  <1>1. AnswersInv => AnswersSound
    <2> SUFFICES ASSUME AnswersInv PROVE AnswersSound
      OBVIOUS
    <2>1. /\ DOMAIN entries \subseteq Streams
          /\ \A s \in DOMAIN entries : EntrySound(entries[s], heard[s], named[s])
      BY DEF AnswersInv, EntriesSound
    <2>2. \A s \in DOMAIN entries : entries[s].age \in Never .. Expiry + 1
      BY <2>1 DEF EntrySound, EntryRecord
    <2>3. TypeOK
      BY <2>1, <2>2 DEF AnswersInv, TypeOK
    <2>4. PoolsMatchEpoch
      BY <2>1 DEF EntrySound, PoolsMatchEpoch
    <2> QED BY <2>3, <2>4 DEF AnswersSound, AnswersInv
  <1> QED BY <1>1, AnswersInvariant, PTL

\* The service never takes a stream back to an earlier epoch, and no answer lists a stream
\* that fell silent, whether or not pruning got to it.
THEOREM AnswersStayCurrent == Spec => AnswersCurrent
  <1> DEFINE A == \A s \in DOMAIN entries \cap DOMAIN entries' : entries'[s].epoch >= entries[s].epoch
             B == \A r \in NewResponses : \A x \in r.results : heard[x.stream] <= Expiry
  <1>1. AnswersInv /\ [Next]_vars => [A]_vars /\ [B]_vars
    BY AnswersStep
  <1>2. AnswersCurrent <=> [][A]_vars /\ [][B]_vars
    BY DEF AnswersCurrent, EpochNeverRegresses, ListedWasHeard
  <1> HIDE DEF A, B
  <1> QED BY <1>1, <1>2, AnswersInvariant, PTL DEF Spec

-----------------------------------------------------------------------------
(* The registries of consumers                                             *)

\* An entry.  A registry knows a consumer once, and an entry is as old as the consumer's
\* last message.
Consumer ==
    [id : Ids, age : 0 .. Stale + 1, progress : BOOLEAN, asks : [Numbers -> Nat \cup {Null}],
     desc : Dests \cup {"none"}, ctrl : Dests \cup {"none"}, stream : Nat,
     desc_pub : Dests \cup {NoPub}, ctrl_pub : Dests \cup {NoPub}]
Table(reg, size) == reg \in [1 .. size -> Consumer \cup {Free}]
RegistrySound(reg, size, since) ==
    /\ Table(reg, size)
    /\ \A i, j \in InUse(reg) : reg[i].id = reg[j].id => i = j
    /\ \A i \in InUse(reg) : reg[i].age = since[reg[i].id]

\* The policy p is the finest one the consumers of reg ask for.
FinestAsked(reg, p) ==
    \A k \in Numbers :
        LET wanted == {reg[i].asks[k] : i \in {j \in InUse(reg) : reg[j].progress}} \ {Null}
        IN  p[k] = IF wanted = {} THEN Default[k] ELSE Min(wanted)

\* Who was told of a stream of its own has a publication, at a destination it named, and
\* at the one it was told if it named no other.
Told == [dest : Dests \cup {"none"}, named : SUBSET Dests]
PublishedAs(t, pub) ==
    /\ pub \in t.named \cup {NoPub}
    /\ t.dest # "none" => pub # NoPub
    /\ t.dest # "none" /\ t.named = {t.dest} => pub = t.dest
ToldPublished(reg, what) == \A i \in InUse(reg) : PublishedAs(what[reg[i].id], reg[i].desc_pub)

\* Streams are assigned by consumer id.
StreamsAssigned(reg) == \A i \in InUse(reg) : reg[i].stream \in {0, AssignStreamId(reg[i].id)}

\* The inductive invariant of the registries.
Times == [Ids -> 0 .. Stale + 1]
DirectoryInv ==
    /\ silent \in [manager : Times, supervisor : Times] /\ swept \in 0 .. Stale + 1
    /\ told \in [Ids -> Told]
    /\ RegistrySound(managed, Capacity, silent.manager)
    /\ RegistrySound(supervised, SupervisorCapacity, silent.supervisor)
    /\ FinestAsked(managed, policy) /\ open = Held(managed) /\ ToldPublished(managed, told)
    /\ StreamsAssigned(supervised)

\* The least number of a set.
LEMMA MinIs ==
    ASSUME NEW S \in SUBSET Nat, NEW m \in S, \A j \in S : m <= j
    PROVE  Min(S) = m
  <1>1. Min(S) \in S /\ \A j \in S : Min(S) <= j
    BY DEF Min
  <1>2. Min(S) <= m /\ m <= Min(S) /\ m \in Nat /\ Min(S) \in Nat
    BY <1>1
  <1> QED BY <1>2

\* An entry in use is a consumer's.
LEMMA InUseIs ==
    ASSUME NEW reg, NEW size, Table(reg, size)
    PROVE  /\ DOMAIN reg = 1 .. size /\ InUse(reg) \subseteq 1 .. size
           /\ \A i \in 1 .. size : i \in InUse(reg) <=> reg[i] \in Consumer
           /\ \A i \in 1 .. size : i \notin InUse(reg) <=> reg[i] = Free
           /\ \A i \in InUse(reg) : reg[i] \in Consumer /\ reg[i].id \in Ids
  <1>1. DOMAIN reg = 1 .. size /\ \A i \in 1 .. size : reg[i] \in Consumer \cup {Free}
    BY DEF Table
  <1>2. \A c \in Consumer : c.id \in Ids
    BY DEF Consumer
  <1>3. Free.id = 0 /\ 0 \notin Ids
    BY DirectoryAssumption DEF Free
  <1>4. Free \notin Consumer
    BY <1>2, <1>3
  <1> QED BY <1>1, <1>2, <1>4 DEF InUse

\* The pass over the entries finds the finest policy asked for.
LEMMA AggregateIsFinest ==
    ASSUME NEW reg, NEW size \in Nat, Table(reg, size)
    PROVE  FinestAsked(reg, Aggregate(reg))
  <1> DEFINE N == Cardinality(DOMAIN reg)
             Asking(k, n) == {i \in InUse(reg) : i <= n /\ reg[i].progress /\ reg[i].asks[k] # Null}
             Ask(k, n) == {reg[i].asks[k] : i \in Asking(k, n)}
             V(k, n) == IF Asking(k, n) = {} THEN Default[k] ELSE Min(Ask(k, n))
             Round(f, n) == IF n = 0 THEN Default
                            ELSE [k \in Numbers |->
                                    IF n \notin Asking(k, n) THEN f[n - 1][k]
                                    ELSE IF Asking(k, n - 1) # {} /\ reg[n].asks[k] >= f[n - 1][k] THEN f[n - 1][k]
                                    ELSE reg[n].asks[k]]
             Pass == CHOOSE f : f = [n \in 0 .. N |-> Round(f, n)]
             g == [n \in 0 .. N |-> IF n = 0 THEN Default ELSE [k \in Numbers |-> V(k, n)]]
  <1>1. Aggregate(reg) = Pass[N]
    BY DEF Aggregate
  <1>2. N = size
    <2>1. 1 \in Int /\ size \in Int
      OBVIOUS
    <2>2. Cardinality(1 .. size) = IF 1 > size THEN 0 ELSE size - 1 + 1
      BY <2>1, FS_Interval
    <2>3. Cardinality(1 .. size) = size
      BY <2>2
    <2> QED BY <2>3, InUseIs
  <1>3. \A i \in InUse(reg) : i \in 1 .. size /\ reg[i] \in Consumer
    BY InUseIs
  <1>4. \A i \in InUse(reg) : \A k \in Numbers : reg[i].asks[k] # Null => reg[i].asks[k] \in Nat
    <2>1. \A c \in Consumer : c.asks \in [Numbers -> Nat \cup {Null}]
      BY DEF Consumer
    <2> QED BY <1>3, <2>1
  <1>5. \A k \in Numbers : \A n \in 0 .. N : Ask(k, n) \in SUBSET Nat /\ (Ask(k, n) = {} <=> Asking(k, n) = {})
    BY <1>4
  <1>6. \A k \in Numbers : Asking(k, 0) = {}
    BY <1>3
  <1>7. ASSUME NEW n \in 1 .. N, NEW k \in Numbers
        PROVE  V(k, n) = IF n \notin Asking(k, n) THEN V(k, n - 1)
                         ELSE IF Asking(k, n - 1) # {} /\ reg[n].asks[k] >= V(k, n - 1) THEN V(k, n - 1)
                         ELSE reg[n].asks[k]
    <2>1. n \in Nat /\ n - 1 \in 0 .. N /\ n \in 0 .. N
      BY <1>2
    <2>2. \A i \in InUse(reg) : i <= n <=> i <= n - 1 \/ i = n
      BY <1>3, <2>1
    <2>3. CASE n \notin Asking(k, n)
      <3>1. Asking(k, n) = Asking(k, n - 1)
        BY <1>3, <2>1, <2>2, <2>3
      <3> QED BY <2>3, <3>1
    <2>4. CASE n \in Asking(k, n)
      <3>1. Asking(k, n) = Asking(k, n - 1) \cup {n}
        BY <1>3, <2>1, <2>2, <2>4
      <3>2. Ask(k, n) = Ask(k, n - 1) \cup {reg[n].asks[k]} /\ Asking(k, n) # {}
        BY <2>4, <3>1
      <3>3. reg[n].asks[k] \in Nat /\ Ask(k, n - 1) \in SUBSET Nat /\ Ask(k, n) \in SUBSET Nat
        BY <1>4, <1>5, <2>1, <2>4
      <3>4. PICK v \in Nat : v = reg[n].asks[k]
        BY <3>3
      <3>5. PICK A : A = Ask(k, n - 1) /\ A \in SUBSET Nat
        BY <3>3
      <3>6. V(k, n) = Min(A \cup {v}) /\ A \cup {v} \in SUBSET Nat
        BY <3>2, <3>3, <3>4, <3>5
      <3>7. CASE Asking(k, n - 1) = {}
        <4>1. A = {}
          BY <1>5, <2>1, <3>5, <3>7
        <4>2. Min(A \cup {v}) = v
          BY <3>6, <4>1, MinIs
        <4> QED BY <2>4, <3>4, <3>6, <3>7, <4>2
      <3>8. CASE Asking(k, n - 1) # {}
        <4>1. A # {} /\ V(k, n - 1) = Min(A)
          BY <1>5, <2>1, <3>5, <3>8
        <4>2. PICK m \in A : \A j \in A : m <= j
          BY <3>5, <4>1, LeastOf
        <4>3. Min(A) = m /\ m \in Nat
          BY <3>5, <4>2, MinIs
        <4>4. Min(A \cup {v}) = IF v >= m THEN m ELSE v
          <5>1. CASE v >= m
            <6>1. m \in A \cup {v} /\ \A j \in A \cup {v} : m <= j
              BY <4>2, <5>1
            <6>2. Min(A \cup {v}) = m
              BY <3>6, <6>1, MinIs
            <6> QED BY <5>1, <6>2
          <5>2. CASE ~(v >= m)
            <6>1. v \in A \cup {v} /\ \A j \in A \cup {v} : v <= j
              BY <3>5, <4>2, <4>3, <5>2
            <6>2. Min(A \cup {v}) = v
              BY <3>6, <6>1, MinIs
            <6> QED BY <5>2, <6>2
          <5> QED BY <5>1, <5>2
        <4> QED BY <2>4, <3>4, <3>6, <3>8, <4>1, <4>3, <4>4
      <3> QED BY <3>7, <3>8
    <2> QED BY <2>3, <2>4
  <1>8. \A n \in 0 .. N : \A k \in Numbers : g[n][k] = V(k, n)
    <2> SUFFICES ASSUME NEW n \in 0 .. N, NEW k \in Numbers PROVE g[n][k] = V(k, n)
      OBVIOUS
    <2>1. CASE n = 0
      <3>1. g[n] = Default /\ V(k, n) = Default[k]
        BY <1>6, <2>1
      <3> QED BY <3>1
    <2>2. CASE n # 0
      BY <2>2
    <2> QED BY <2>1, <2>2
  <1> HIDE DEF V, N
  <1>9. \A n \in 0 .. N : g[n] = Round(g, n)
    <2> TAKE n \in 0 .. N
    <2>1. CASE n = 0
      BY <2>1
    <2>2. CASE n # 0
      <3>1. n \in 1 .. N /\ n - 1 \in 0 .. N
        BY <1>2, <2>2
      <3>2. g[n] = [k \in Numbers |-> V(k, n)]
        BY <2>2
      <3> HIDE DEF g
      <3>3. \A k \in Numbers : V(k, n) = IF n \notin Asking(k, n) THEN g[n - 1][k]
                                ELSE IF Asking(k, n - 1) # {} /\ reg[n].asks[k] >= g[n - 1][k] THEN g[n - 1][k]
                                ELSE reg[n].asks[k]
        BY <1>7, <1>8, <3>1
      <3> HIDE DEF Asking
      <3> QED BY <2>2, <3>2, <3>3
    <2> QED BY <2>1, <2>2
  <1>10. g = [n \in 0 .. N |-> Round(g, n)]
    <2>1. DOMAIN g = 0 .. N /\ g = [n \in 0 .. N |-> g[n]]
      OBVIOUS
    <2> HIDE DEF g, Round
    <2> QED BY <1>9, <2>1
  <1>11. Pass = [n \in 0 .. N |-> Round(Pass, n)]
    <2>1. \E f : f = [n \in 0 .. N |-> Round(f, n)]
      BY <1>10
    <2> HIDE DEF g, Round
    <2> QED BY <2>1
  <1> HIDE DEF Pass, g, Asking
  <1>12. \A n \in 0 .. N : Pass[n] = g[n]
    <2> DEFINE Bad == {n \in 0 .. N : Pass[n] # g[n]}
    <2> SUFFICES ASSUME Bad # {} PROVE FALSE
      OBVIOUS
    <2>1. Bad \in SUBSET Nat
      BY <1>2
    <2>2. PICK n \in Bad : \A j \in Bad : n <= j
      BY <2>1, LeastOf
    <2>3. n \in 0 .. N /\ Pass[n] = Round(Pass, n) /\ g[n] = Round(g, n)
      BY <1>9, <1>11
    <2>4. CASE n = 0
      BY <2>2, <2>3, <2>4
    <2>5. CASE n # 0
      <3>1. n - 1 \in 0 .. N /\ n - 1 \notin Bad
        BY <1>2, <2>2, <2>3, <2>5
      <3>2. Pass[n - 1] = g[n - 1]
        BY <3>1
      <3>3. Round(Pass, n) = Round(g, n)
        BY <3>2
      <3> QED BY <2>2, <2>3, <3>3
    <2> QED BY <2>4, <2>5
  <1>13. ASSUME NEW k \in Numbers PROVE Aggregate(reg)[k] = V(k, N)
    <2>1. N \in 0 .. N
      BY <1>2
    <2> QED BY <1>1, <1>8, <1>12, <2>1
  <1>14. ASSUME NEW k \in Numbers
         PROVE  {reg[i].asks[k] : i \in {j \in InUse(reg) : reg[j].progress}} \ {Null} = Ask(k, N)
    <2>1. \A i \in InUse(reg) : i <= N
      BY <1>2, <1>3
    <2> QED BY <2>1 DEF Asking
  <1>15. ASSUME NEW k \in Numbers PROVE V(k, N) = IF Ask(k, N) = {} THEN Default[k] ELSE Min(Ask(k, N))
    BY DEF V
  <1> HIDE DEF Ask
  <1> QED BY <1>13, <1>14, <1>15 DEF FinestAsked

\* Entries that ask for the same things lead to the same policy.
LEMMA SamePolicy ==
    ASSUME NEW reg, NEW other, NEW p, FinestAsked(reg, p), InUse(other) = InUse(reg),
           \A i \in InUse(reg) : other[i].progress = reg[i].progress /\ other[i].asks = reg[i].asks
    PROVE  FinestAsked(other, p)
  <1>1. ASSUME NEW k \in Numbers
        PROVE  {other[i].asks[k] : i \in {j \in InUse(other) : other[j].progress}}
                 = {reg[i].asks[k] : i \in {j \in InUse(reg) : reg[j].progress}}
    OBVIOUS
  <1> QED BY <1>1 DEF FinestAsked

\* The publications of an entry, and of a registry.
Publishes(c, p) ==
    \/ p = <<c.id, "desc", c.desc_pub>> /\ c.desc_pub # NoPub
    \/ p = <<c.id, "ctrl", c.ctrl_pub>> /\ c.ctrl_pub # NoPub

\* Publications held are those of the entries in use.
LEMMA HeldIs ==
    ASSUME NEW reg, NEW size, Table(reg, size), NEW p
    PROVE  p \in Held(reg) <=> \E i \in InUse(reg) : Publishes(reg[i], p)
  <1>1. \A i \in InUse(reg) : reg[i].id \in Ids
    BY InUseIs
  <1>2. p \in Held(reg) <=>
            /\ \E i \in InUse(reg) : p \in {<<reg[i].id, "desc", reg[i].desc_pub>>, <<reg[i].id, "ctrl", reg[i].ctrl_pub>>}
            /\ ~(\E id \in Ids, s \in {"desc", "ctrl"} : p = <<id, s, NoPub>>)
    <2> DEFINE Two(i) == {<<reg[i].id, "desc", reg[i].desc_pub>>, <<reg[i].id, "ctrl", reg[i].ctrl_pub>>}
               All == UNION {Two(i) : i \in InUse(reg)}
               Not == Ids \X {"desc", "ctrl"} \X {NoPub}
    <2>1. Held(reg) = All \ Not
      BY DEF Held
    <2>2. p \in Not <=> \E id \in Ids, s \in {"desc", "ctrl"} : p = <<id, s, NoPub>>
      OBVIOUS
    <2> HIDE DEF Two, Not
    <2>3. p \in All <=> \E i \in InUse(reg) : p \in Two(i)
      OBVIOUS
    <2> HIDE DEF All
    <2>4. p \in Held(reg) <=> (\E i \in InUse(reg) : p \in Two(i))
                              /\ ~(\E id \in Ids, s \in {"desc", "ctrl"} : p = <<id, s, NoPub>>)
      BY <2>1, <2>2, <2>3
    <2> QED BY <2>4 DEF Two
  <1>3. ASSUME NEW i \in InUse(reg), Publishes(reg[i], p) PROVE p \in Held(reg)
    <2>1. ~(\E id \in Ids, s \in {"desc", "ctrl"} : p = <<id, s, NoPub>>)
      BY <1>3 DEF Publishes
    <2>2. p \in {<<reg[i].id, "desc", reg[i].desc_pub>>, <<reg[i].id, "ctrl", reg[i].ctrl_pub>>}
      BY <1>3 DEF Publishes
    <2> QED BY <1>2, <2>1, <2>2
  <1>4. ASSUME p \in Held(reg) PROVE \E i \in InUse(reg) : Publishes(reg[i], p)
    <2>1. PICK i \in InUse(reg) : p \in {<<reg[i].id, "desc", reg[i].desc_pub>>, <<reg[i].id, "ctrl", reg[i].ctrl_pub>>}
      BY <1>2, <1>4
    <2>2. reg[i].id \in Ids /\ \A s \in {"desc", "ctrl"} : p # <<reg[i].id, s, NoPub>>
      BY <1>1, <1>2, <1>4
    <2>3. Publishes(reg[i], p)
      BY <2>1, <2>2 DEF Publishes
    <2> QED BY <2>3
  <1> QED BY <1>3, <1>4

\* Entries that publish the same.
LEMMA SameHeld ==
    ASSUME NEW reg, NEW other, NEW size, Table(reg, size), Table(other, size), InUse(other) = InUse(reg),
           \A i \in InUse(reg) : /\ other[i].id = reg[i].id /\ other[i].desc_pub = reg[i].desc_pub
                                 /\ other[i].ctrl_pub = reg[i].ctrl_pub
    PROVE  Held(other) = Held(reg)
  <1>1. \A p : \A i \in InUse(reg) : Publishes(other[i], p) <=> Publishes(reg[i], p)
    BY DEF Publishes
  <1>2. \A p : p \in Held(other) <=> p \in Held(reg)
    <2> TAKE p
    <2>1. p \in Held(other) <=> \E i \in InUse(reg) : Publishes(other[i], p)
      BY HeldIs
    <2>2. p \in Held(reg) <=> \E i \in InUse(reg) : Publishes(reg[i], p)
      BY HeldIs
    <2> QED BY <1>1, <2>1, <2>2
  <1> QED BY <1>2

\* Where a consumer's entry goes: to the one it has, or to a free one.
LEMMA SlotIs ==
    ASSUME NEW reg, NEW size \in Nat, Table(reg, size), NEW id \in Ids, SlotFor(reg, id) # 0
    PROVE  /\ SlotFor(reg, id) \in 1 .. size
           /\ \/ SlotFor(reg, id) \in Find(reg, id)
              \/ Find(reg, id) = {} /\ reg[SlotFor(reg, id)] = Free
  <1> DEFINE unused == DOMAIN reg \ InUse(reg)
  <1>1. DOMAIN reg = 1 .. size /\ InUse(reg) \subseteq 1 .. size /\ \A i \in unused : reg[i] = Free
    BY InUseIs
  <1>2. Find(reg, id) \in SUBSET Nat /\ Find(reg, id) \subseteq 1 .. size
    BY <1>1 DEF Find
  <1>3. unused \in SUBSET Nat /\ unused \subseteq 1 .. size
    BY <1>1
  <1>4. Find(reg, id) # {} => Min(Find(reg, id)) \in Find(reg, id)
    <2>1. Find(reg, id) # {} => \E k \in Find(reg, id) : \A j \in Find(reg, id) : k <= j
      BY <1>2, LeastOf
    <2> QED BY <2>1 DEF Min
  <1>5. unused # {} => Min(unused) \in unused
    <2> HIDE DEF unused
    <2>1. unused # {} => \E k \in unused : \A j \in unused : k <= j
      BY <1>3, LeastOf
    <2> QED BY <2>1 DEF Min
  <1>6. SlotFor(reg, id) = IF Find(reg, id) # {} THEN Min(Find(reg, id)) ELSE IF unused # {} THEN Min(unused) ELSE 0
    BY DEF SlotFor
  <1> HIDE DEF unused
  <1> QED BY <1>1, <1>2, <1>3, <1>4, <1>5, <1>6

\* The registry after differs from reg in the entry of the consumer c, which is at slot.
Only(c, slot, reg, after) ==
    /\ after[slot] = c /\ InUse(after) = InUse(reg) \cup {slot}
    /\ \A i \in InUse(after) : i # slot => i \in InUse(reg) /\ after[i] = reg[i] /\ reg[i].id # c.id
    /\ slot \in InUse(reg) => reg[slot].id = c.id

\* A registry with the entry c at slot; an entry, and the times since consumers were heard,
\* after a message of a consumer.
With(reg, slot, c) == [reg EXCEPT ![slot] = c]
Renewed(c) == [c EXCEPT !.age = 0]
Heard(since, id) == [since EXCEPT ![id] = 0]

\* The entry of a consumer that was just heard.
LEMMA Placed ==
    ASSUME NEW reg, NEW size \in Nat, NEW since \in Times, RegistrySound(reg, size, since),
           NEW c \in Consumer, c.age = 0,
           NEW slot \in 1 .. size, slot \in Find(reg, c.id) \/ (Find(reg, c.id) = {} /\ reg[slot] = Free),
           NEW after, after = With(reg, slot, c), NEW now, now = Heard(since, c.id)
    PROVE  RegistrySound(after, size, now) /\ now \in Times /\ Only(c, slot, reg, after)
  <1>1. Table(reg, size) /\ c.id \in Ids
    BY DEF RegistrySound, Consumer
  <1>2. Table(after, size) /\ after[slot] = c /\ \A i \in 1 .. size : i # slot => after[i] = reg[i]
    BY <1>1 DEF Table, With
  <1>3. InUse(after) = InUse(reg) \cup {slot}
    <2>1. \A i \in 1 .. size : i \in InUse(after) <=> after[i] \in Consumer
      BY <1>2, InUseIs
    <2>2. \A i \in 1 .. size : i \in InUse(reg) <=> reg[i] \in Consumer
      BY <1>1, InUseIs
    <2>3. InUse(after) \subseteq 1 .. size /\ InUse(reg) \subseteq 1 .. size
      BY <1>1, <1>2, InUseIs
    <2> QED BY <1>2, <2>1, <2>2, <2>3
  <1>4. slot \in InUse(reg) => reg[slot].id = c.id
    BY DEF Find, InUse
  <1>5. \A i \in InUse(after) : i # slot => i \in InUse(reg) /\ after[i] = reg[i] /\ reg[i].id # c.id
    <2> SUFFICES ASSUME NEW i \in InUse(after), i # slot PROVE i \in InUse(reg) /\ after[i] = reg[i] /\ reg[i].id # c.id
      OBVIOUS
    <2>1. i \in InUse(reg) /\ after[i] = reg[i]
      BY <1>1, <1>2, <1>3, InUseIs
    <2>2. reg[i].id = c.id => i \in Find(reg, c.id)
      BY <2>1 DEF Find
    <2>3. slot \in Find(reg, c.id) => slot \in InUse(reg) /\ reg[slot].id = c.id
      BY DEF Find
    <2> QED BY <2>1, <2>2, <2>3 DEF RegistrySound
  <1>6. now \in Times /\ now[c.id] = 0 /\ \A id \in Ids : id # c.id => now[id] = since[id]
    BY <1>1, DirectoryAssumption DEF Times, Heard
  <1>7. \A i, j \in InUse(after) : after[i].id = after[j].id => i = j
    <2> SUFFICES ASSUME NEW i \in InUse(after), NEW j \in InUse(after), after[i].id = after[j].id PROVE i = j
      OBVIOUS
    <2>1. CASE i # slot /\ j # slot
      BY <1>5, <2>1 DEF RegistrySound
    <2>2. CASE i = slot \/ j = slot
      BY <1>2, <1>5, <2>2
    <2> QED BY <2>1, <2>2
  <1>8. \A i \in InUse(after) : after[i].age = now[after[i].id]
    <2> TAKE i \in InUse(after)
    <2>1. CASE i = slot
      BY <1>2, <1>6, <2>1
    <2>2. CASE i # slot
      <3>1. i \in InUse(reg) /\ after[i] = reg[i] /\ reg[i].id # c.id /\ reg[i].id \in Ids
        BY <1>1, <1>5, <2>2, InUseIs
      <3> QED BY <1>6, <3>1 DEF RegistrySound
    <2> QED BY <2>1, <2>2
  <1>9. RegistrySound(after, size, now)
    BY <1>2, <1>7, <1>8 DEF RegistrySound
  <1> QED BY <1>2, <1>3, <1>4, <1>5, <1>6, <1>9 DEF Only

\* What a hello writes into its entry.
LEMMA UpdatedIs ==
    ASSUME NEW reg, NEW size, Table(reg, size), NEW h \in Hellos, RequestValid(h), NEW slot \in 1 .. size
    PROVE  LET c == Updated(reg, slot, h)
           IN  /\ c \in Consumer /\ c.id = h.id /\ c.age = 0 /\ c.stream = 0
               /\ c.desc_pub = IF slot \in InUse(reg) THEN reg[slot].desc_pub ELSE NoPub
               /\ c.ctrl_pub = IF slot \in InUse(reg) THEN reg[slot].ctrl_pub ELSE NoPub
  <1>1. /\ h.id \in Ids /\ h.progress \in BOOLEAN /\ h.asks \in [Numbers -> Nat \cup {Null}]
        /\ h.desc \in Dests \cup {"none", "half", "long"} /\ h.ctrl \in Dests \cup {"none", "half", "long"}
        /\ 0 \in 0 .. Stale + 1 /\ 0 \in Nat
    BY DirectoryAssumption
  <1>2. Fits(h.desc) \in Dests \cup {"none"} /\ Fits(h.ctrl) \in Dests \cup {"none"}
    BY <1>1 DEF Fits, RequestValid
  <1>3. slot \in InUse(reg) <=> reg[slot] # Free
    BY InUseIs
  <1>4. PICK d, k : /\ d = IF reg[slot] = Free THEN NoPub ELSE reg[slot].desc_pub
                    /\ k = IF reg[slot] = Free THEN NoPub ELSE reg[slot].ctrl_pub
    OBVIOUS
  <1>5. d \in Dests \cup {NoPub} /\ k \in Dests \cup {NoPub}
    <2>1. slot \in InUse(reg) => reg[slot] \in Consumer
      BY InUseIs
    <2>2. slot \in InUse(reg) => reg[slot].desc_pub \in Dests \cup {NoPub} /\ reg[slot].ctrl_pub \in Dests \cup {NoPub}
      BY <2>1 DEF Consumer
    <2> QED BY <1>3, <1>4, <2>2
  <1>6. PICK e, f : e = Fits(h.desc) /\ f = Fits(h.ctrl)
    OBVIOUS
  <1>7. Updated(reg, slot, h) = [id |-> h.id, age |-> 0, progress |-> h.progress, asks |-> h.asks,
                                 desc |-> e, ctrl |-> f, stream |-> 0, desc_pub |-> d, ctrl_pub |-> k]
    BY <1>4, <1>6 DEF Updated
  <1>8. Updated(reg, slot, h) \in Consumer
    BY <1>1, <1>2, <1>5, <1>6, <1>7 DEF Consumer
  <1> QED BY <1>3, <1>4, <1>7, <1>8

\* The hello of a consumer changes one publication of it at a time, or leaves it.
LEMMA PublicationIs ==
    ASSUME NEW wanted \in Dests \cup {"none"}, NEW pub \in Dests \cup {NoPub}, NEW added \in BOOLEAN
    PROVE  /\ PublicationAfter(wanted, pub, added) \in Dests \cup {NoPub}
           /\ \/ PublicationAfter(wanted, pub, added) = NoPub
              \/ pub = NoPub
              \/ PublicationAfter(wanted, pub, added) = pub
  BY DEF PublicationAfter

\* What the consumer is told agrees with the publication it then has.
LEMMA ToldAfterIs ==
    ASSUME NEW wanted \in Dests \cup {"none"}, NEW t \in Told, NEW pub \in t.named \cup {NoPub}, NEW added \in BOOLEAN,
           NEW new, new = PublicationAfter(wanted, pub, added)
    PROVE  ToldAfter(t, wanted, new) \in Told /\ PublishedAs(ToldAfter(t, wanted, new), new)
  <1>1. t.named \in SUBSET Dests
    BY DEF Told
  <1>2. PICK u : u = ToldAfter(t, wanted, new)
    OBVIOUS
  <1>3. /\ u.dest = (IF new = NoPub THEN "none" ELSE wanted)
        /\ u.named = (IF wanted = "none" THEN {} ELSE t.named \cup {wanted})
    BY <1>2 DEF ToldAfter, AssignedTo
  <1>4. u \in Told
    BY <1>1, <1>2 DEF ToldAfter, AssignedTo, Told
  <1>5. CASE wanted = "none"
    <2>1. new = NoPub
      BY <1>5 DEF PublicationAfter
    <2> QED BY <1>2, <1>3, <1>4, <2>1 DEF PublishedAs
  <1>6. CASE wanted # "none"
    <2>1. new \in {NoPub, pub, wanted} /\ u.named = t.named \cup {wanted}
      BY <1>3, <1>6 DEF PublicationAfter
    <2>2. new \in u.named \cup {NoPub}
      BY <2>1
    <2>3. u.dest # "none" => new # NoPub
      BY <1>3
    <2> QED BY <1>2, <1>4, <2>2, <2>3 DEF PublishedAs
  <1> QED BY <1>5, <1>6

\* A hello to the manager.
LEMMA ManagerHandleHelloStep ==
    ASSUME DirectoryInv, NEW h \in Hellos, ManagerHandleHello(h)
    PROVE  DirectoryInv' /\ Left(managed, managed') = {} /\ Left(supervised, supervised') = {}
  <1> DEFINE Slot == SlotFor(managed, h.id)
             Entry == Updated(managed, Slot, h)
             Desc(d) == PublicationAfter(Entry.desc, Entry.desc_pub, d)
             Ctrl(k) == PublicationAfter(Entry.ctrl, Entry.ctrl_pub, k)
             Write(d, k) == [Entry EXCEPT !.desc_pub = Desc(d), !.ctrl_pub = Ctrl(k)]
             Closes(p, d, k) == (p[2] = "desc" /\ d = NoPub) \/ (p[2] = "ctrl" /\ k = NoPub)
             Opens(d, k) == {<<h.id, "desc", d>>, <<h.id, "ctrl", k>>} \ {<<h.id, "desc", NoPub>>, <<h.id, "ctrl", NoPub>>}
  <1>a. PICK dAdded \in BOOLEAN, cAdded \in BOOLEAN :
            /\ RequestValid(h) /\ Slot # 0
            /\ managed' = [managed EXCEPT ![Slot] = Write(dAdded, cAdded)]
            /\ policy' = Aggregate([managed EXCEPT ![Slot] = Write(dAdded, cAdded)])
            /\ open' = (open \ {p \in {q \in open : q[1] = h.id} : Closes(p, Desc(dAdded), Ctrl(cAdded))})
                       \cup Opens(Desc(dAdded), Ctrl(cAdded))
            /\ told' = [told EXCEPT ![h.id] = ToldAfter(@, Entry.desc, Desc(dAdded))]
            /\ silent' = [silent EXCEPT !.manager[h.id] = 0]
            /\ UNCHANGED <<supervised, swept>>
    BY ZenonT(60) DEF ManagerHandleHello
  <1>b. PICK slot, entry : slot = Slot /\ entry = Entry
    OBVIOUS
  <1>c. PICK desc, ctrl, c : desc = Desc(dAdded) /\ ctrl = Ctrl(cAdded) /\ c = Write(dAdded, cAdded)
    OBVIOUS
  <1>1. /\ slot = SlotFor(managed, h.id) /\ entry = Updated(managed, slot, h)
        /\ desc = PublicationAfter(entry.desc, entry.desc_pub, dAdded)
        /\ ctrl = PublicationAfter(entry.ctrl, entry.ctrl_pub, cAdded)
        /\ c = [entry EXCEPT !.desc_pub = desc, !.ctrl_pub = ctrl]
        /\ RequestValid(h) /\ slot # 0
        /\ managed' = [managed EXCEPT ![slot] = c]
        /\ policy' = Aggregate([managed EXCEPT ![slot] = c])
        /\ open' = (open \ {p \in {q \in open : q[1] = h.id} : Closes(p, desc, ctrl)}) \cup Opens(desc, ctrl)
        /\ told' = [told EXCEPT ![h.id] = ToldAfter(@, entry.desc, desc)]
        /\ silent' = [silent EXCEPT !.manager[h.id] = 0]
        /\ supervised' = supervised /\ swept' = swept
    BY <1>a, <1>b, <1>c
  <1> HIDE DEF Slot, Entry, Desc, Ctrl, Write
  <1>2. /\ Table(managed, Capacity) /\ RegistrySound(managed, Capacity, silent.manager)
        /\ h.id \in Ids /\ Capacity \in Nat /\ silent.manager \in Times /\ silent.supervisor \in Times
        /\ silent \in [manager : Times, supervisor : Times] /\ open = Held(managed)
        /\ told \in [Ids -> Told] /\ ToldPublished(managed, told)
    BY DirectoryAssumption DEF DirectoryInv, RegistrySound
  <1>3. slot \in 1 .. Capacity /\ (slot \in Find(managed, h.id) \/ (Find(managed, h.id) = {} /\ managed[slot] = Free))
    BY <1>1, <1>2, SlotIs
  <1>4. /\ entry \in Consumer /\ entry.id = h.id /\ entry.age = 0
        /\ entry.desc_pub = IF slot \in InUse(managed) THEN managed[slot].desc_pub ELSE NoPub
        /\ entry.ctrl_pub = IF slot \in InUse(managed) THEN managed[slot].ctrl_pub ELSE NoPub
    BY <1>1, <1>2, <1>3, UpdatedIs
  <1>5. /\ entry.desc \in Dests \cup {"none"} /\ entry.desc_pub \in Dests \cup {NoPub}
        /\ entry.ctrl \in Dests \cup {"none"} /\ entry.ctrl_pub \in Dests \cup {NoPub}
    BY <1>4 DEF Consumer
  <1>6. /\ desc \in Dests \cup {NoPub} /\ (desc = NoPub \/ entry.desc_pub = NoPub \/ desc = entry.desc_pub)
        /\ ToldAfter(told[h.id], entry.desc, desc) \in Told /\ PublishedAs(ToldAfter(told[h.id], entry.desc, desc), desc)
    <2>1. PICK w \in Dests \cup {"none"}, q \in Dests \cup {NoPub} : w = entry.desc /\ q = entry.desc_pub
      BY <1>5
    <2>2. desc = PublicationAfter(w, q, dAdded)
      BY <1>1, <2>1
    <2>3. desc \in Dests \cup {NoPub} /\ (desc = NoPub \/ q = NoPub \/ desc = q)
      BY <2>2, PublicationIs
    <2>4. PICK t \in Told : t = told[h.id]
      BY <1>2
    <2>5. q \in t.named \cup {NoPub}
      <3>1. CASE slot \in InUse(managed)
        <4>1. managed[slot].id = h.id
          BY <1>3, <3>1 DEF Find, InUse
        <4>2. PublishedAs(told[managed[slot].id], managed[slot].desc_pub)
          BY <1>2, <3>1 DEF ToldPublished
        <4> QED BY <1>4, <2>1, <2>4, <3>1, <4>1, <4>2 DEF PublishedAs
      <3>2. CASE slot \notin InUse(managed)
        BY <1>4, <2>1, <3>2
      <3> QED BY <3>1, <3>2
    <2>6. ToldAfter(t, w, desc) \in Told /\ PublishedAs(ToldAfter(t, w, desc), desc)
      BY <2>2, <2>5, ToldAfterIs
    <2> QED BY <2>1, <2>3, <2>4, <2>6
  <1>7. ctrl \in Dests \cup {NoPub} /\ (ctrl = NoPub \/ entry.ctrl_pub = NoPub \/ ctrl = entry.ctrl_pub)
    BY <1>1, <1>5, PublicationIs
  <1>8. c \in Consumer /\ c.id = h.id /\ c.age = 0 /\ c.desc_pub = desc /\ c.ctrl_pub = ctrl
    BY <1>1, <1>4, <1>6, <1>7 DEF Consumer
  <1>9. /\ silent' \in [manager : Times, supervisor : Times] /\ silent'.supervisor = silent.supervisor
        /\ silent'.manager = [silent.manager EXCEPT ![h.id] = 0]
    <2>1. [silent.manager EXCEPT ![h.id] = 0] \in Times
      BY <1>2, DirectoryAssumption DEF Times
    <2> QED BY <1>1, <1>2, <2>1
  <1>10. /\ RegistrySound(managed', Capacity, silent'.manager) /\ managed'[slot] = c
         /\ InUse(managed') = InUse(managed) \cup {slot}
         /\ \A i \in InUse(managed') : i # slot => i \in InUse(managed) /\ managed'[i] = managed[i] /\ managed[i].id # h.id
         /\ slot \in InUse(managed) => managed[slot].id = h.id
    <2>1. PICK reg, since, after, now :
              reg = managed /\ since = silent.manager /\ after = managed' /\ now = silent'.manager
      OBVIOUS
    <2>2. since \in Times /\ RegistrySound(reg, Capacity, since)
      BY <1>2, <2>1
    <2>3. slot \in Find(reg, c.id) \/ (Find(reg, c.id) = {} /\ reg[slot] = Free)
      BY <1>3, <1>8, <2>1
    <2>4. after = With(reg, slot, c) /\ now = Heard(since, c.id)
      BY <1>1, <1>8, <1>9, <2>1 DEF With, Heard
    <2>5. c \in Consumer /\ c.age = 0 /\ slot \in 1 .. Capacity /\ Capacity \in Nat
      BY <1>2, <1>3, <1>8
    <2>6. RegistrySound(after, Capacity, now) /\ Only(c, slot, reg, after)
      BY ONLY <2>2, <2>3, <2>4, <2>5, Placed
    <2> QED BY <1>8, <2>1, <2>6 DEF Only
  <1>11. FinestAsked(managed', policy')
    <2>1. Table(managed', Capacity)
      BY <1>10 DEF RegistrySound
    <2>2. policy' = Aggregate(managed')
      BY <1>1
    <2> QED BY <1>2, <2>1, <2>2, AggregateIsFinest
  <1>12. open' = Held(managed')
    <2> DEFINE Closed(p) == p[1] = h.id /\ ((p[2] = "desc" /\ desc = NoPub) \/ (p[2] = "ctrl" /\ ctrl = NoPub))
    <2>1. \A p : p \in open' <=> (p \in open /\ ~Closed(p)) \/ Publishes(c, p)
      BY <1>1, <1>8 DEF Publishes
    <2>2. \A p : p \in open <=> \E i \in InUse(managed) : Publishes(managed[i], p)
      BY <1>2, HeldIs
    <2>3. \A p : p \in Held(managed') <=> \E i \in InUse(managed') : Publishes(managed'[i], p)
      <3>1. Table(managed', Capacity)
        BY <1>10 DEF RegistrySound
      <3> QED BY <3>1, HeldIs
    <2>4. \A i \in InUse(managed) : i # slot => i \in InUse(managed') /\ managed'[i] = managed[i] /\ managed[i].id # h.id
      BY <1>10
    <2>5. \A p : \A i \in InUse(managed) : i # slot /\ Publishes(managed[i], p) => ~Closed(p)
      BY <2>4 DEF Publishes
    <2>6. slot \in InUse(managed) => \A p : Publishes(managed[slot], p) => Closed(p) \/ Publishes(c, p)
      <3> SUFFICES ASSUME slot \in InUse(managed), NEW p, Publishes(managed[slot], p) PROVE Closed(p) \/ Publishes(c, p)
        OBVIOUS
      <3>1. /\ managed[slot].id = h.id /\ c.id = h.id /\ c.desc_pub = desc /\ c.ctrl_pub = ctrl
            /\ desc = NoPub \/ managed[slot].desc_pub = NoPub \/ desc = managed[slot].desc_pub
            /\ ctrl = NoPub \/ managed[slot].ctrl_pub = NoPub \/ ctrl = managed[slot].ctrl_pub
        BY <1>4, <1>6, <1>7, <1>8, <1>10
      <3>2. CASE p = <<managed[slot].id, "desc", managed[slot].desc_pub>> /\ managed[slot].desc_pub # NoPub
        <4>1. p[1] = h.id /\ p[2] = "desc"
          BY <3>1, <3>2
        <4>2. desc # NoPub => p = <<c.id, "desc", c.desc_pub>> /\ c.desc_pub # NoPub
          BY <3>1, <3>2
        <4>3. desc = NoPub => Closed(p)
          BY <4>1
        <4>4. desc # NoPub => Publishes(c, p)
          BY <4>2 DEF Publishes
        <4> QED BY <4>3, <4>4
      <3>3. CASE p = <<managed[slot].id, "ctrl", managed[slot].ctrl_pub>> /\ managed[slot].ctrl_pub # NoPub
        <4>1. p[1] = h.id /\ p[2] = "ctrl"
          BY <3>1, <3>3
        <4>2. ctrl # NoPub => p = <<c.id, "ctrl", c.ctrl_pub>> /\ c.ctrl_pub # NoPub
          BY <3>1, <3>3
        <4>3. ctrl = NoPub => Closed(p)
          BY <4>1
        <4>4. ctrl # NoPub => Publishes(c, p)
          BY <4>2 DEF Publishes
        <4> QED BY <4>3, <4>4
      <3> QED BY <3>2, <3>3 DEF Publishes
    <2>7. \A p : p \in open /\ ~Closed(p) => \E i \in InUse(managed') : Publishes(managed'[i], p)
      <3> SUFFICES ASSUME NEW p, p \in open, ~Closed(p) PROVE \E i \in InUse(managed') : Publishes(managed'[i], p)
        OBVIOUS
      <3> HIDE DEF Closed
      <3>1. PICK i \in InUse(managed) : Publishes(managed[i], p)
        BY <2>2
      <3>2. i \in InUse(managed') /\ Publishes(managed'[i], p)
        BY <1>10, <2>4, <2>6, <3>1
      <3> QED BY <3>2
    <2>8. \A p : Publishes(c, p) => \E i \in InUse(managed') : Publishes(managed'[i], p)
      BY <1>10
    <2>9. \A p : \A i \in InUse(managed') : Publishes(managed'[i], p) => (p \in open /\ ~Closed(p)) \/ Publishes(c, p)
      <3> SUFFICES ASSUME NEW p, NEW i \in InUse(managed'), Publishes(managed'[i], p), i # slot
                   PROVE  p \in open /\ ~Closed(p)
        BY <1>10
      <3> HIDE DEF Closed
      <3>1. i \in InUse(managed) /\ Publishes(managed[i], p)
        BY <1>10
      <3> QED BY <2>2, <2>5, <3>1
    <2> HIDE DEF Closed
    <2> QED BY <2>1, <2>3, <2>7, <2>8, <2>9
  <1>13. told' \in [Ids -> Told] /\ ToldPublished(managed', told')
    <2>1. told' \in [Ids -> Told] /\ told'[h.id] = ToldAfter(told[h.id], entry.desc, desc)
          /\ \A id \in Ids : id # h.id => told'[id] = told[id]
      BY <1>1, <1>2, <1>6
    <2>2. ASSUME NEW i \in InUse(managed') PROVE PublishedAs(told'[managed'[i].id], managed'[i].desc_pub)
      <3>1. CASE i = slot
        BY <1>6, <1>8, <1>10, <2>1, <3>1
      <3>2. CASE i # slot
        <4>1. i \in InUse(managed) /\ managed'[i] = managed[i] /\ managed[i].id # h.id /\ managed[i].id \in Ids
          BY <1>2, <1>10, <3>2, InUseIs
        <4> QED BY <1>2, <2>1, <4>1 DEF ToldPublished
      <3> QED BY <3>1, <3>2
    <2> QED BY <2>1, <2>2 DEF ToldPublished
  <1>14. DirectoryInv'
    BY <1>1, <1>9, <1>10, <1>11, <1>12, <1>13 DEF DirectoryInv
  <1>15. Left(managed, managed') = {}
    <2>1. \A i \in InUse(managed) : i \in InUse(managed') /\ managed'[i].id = managed[i].id
      BY <1>8, <1>10
    <2> QED BY <2>1 DEF Left
  <1>16. Left(supervised, supervised') = {}
    BY <1>1 DEF Left
  <1> QED BY <1>14, <1>15, <1>16

\* A hello to the supervisor.
LEMMA SupervisorHandleHelloStep ==
    ASSUME DirectoryInv, NEW h \in Hellos, SupervisorHandleHello(h)
    PROVE  DirectoryInv' /\ Left(managed, managed') = {} /\ Left(supervised, supervised') = {}
  <1> DEFINE Slot == SlotFor(supervised, h.id)
             Entry == Updated(supervised, Slot, h)
             Stream == IF h.desc # "none" THEN AssignStreamId(h.id) ELSE 0
  <1>a. /\ RequestValid(h) /\ Slot # 0
        /\ supervised' = [supervised EXCEPT ![Slot] = [Entry EXCEPT !.stream = Stream]]
        /\ silent' = [silent EXCEPT !.supervisor[h.id] = 0]
        /\ managed' = managed /\ policy' = policy /\ swept' = swept /\ open' = open /\ told' = told
    BY DEF SupervisorHandleHello
  <1>b. PICK slot, entry, stream : slot = Slot /\ entry = Entry /\ stream = Stream
    OBVIOUS
  <1>c. PICK c : c = [entry EXCEPT !.stream = stream]
    OBVIOUS
  <1>1. /\ slot = SlotFor(supervised, h.id) /\ entry = Updated(supervised, slot, h) /\ RequestValid(h) /\ slot # 0
        /\ supervised' = [supervised EXCEPT ![slot] = c]
    BY <1>a, <1>b, <1>c
  <1>2. /\ Table(supervised, SupervisorCapacity) /\ RegistrySound(supervised, SupervisorCapacity, silent.supervisor)
        /\ h.id \in Ids /\ SupervisorCapacity \in Nat /\ silent.manager \in Times /\ silent.supervisor \in Times
        /\ silent \in [manager : Times, supervisor : Times] /\ StreamsAssigned(supervised)
    BY DirectoryAssumption DEF DirectoryInv, RegistrySound
  <1>3. AssignStreamId(h.id) \in Nat /\ stream \in {0, AssignStreamId(h.id)}
    <2>a. \A x, r \in Nat : r # 0 => x % r \in Nat
      OBVIOUS
    <2>b. h.id \in Nat /\ AssignBase \in Nat /\ AssignRange \in Nat
      BY <1>2, DirectoryAssumption
    <2>1. /\ h.id \in Nat /\ AssignBase \in Nat /\ AssignRange \in Nat
          /\ AssignRange # 0 => h.id % AssignRange \in Nat
      BY <2>a, <2>b
    <2>2. AssignStreamId(h.id) \in Nat
      BY <2>1 DEF AssignStreamId
    <2> QED BY <1>b, <2>2
  <1> HIDE DEF Slot, Entry, Stream
  <1>4. /\ slot \in 1 .. SupervisorCapacity
        /\ slot \in Find(supervised, h.id) \/ (Find(supervised, h.id) = {} /\ supervised[slot] = Free)
    BY <1>1, <1>2, SlotIs
  <1>5. entry \in Consumer /\ entry.id = h.id /\ entry.age = 0
    BY <1>1, <1>2, <1>4, UpdatedIs
  <1>6. c \in Consumer /\ c.id = h.id /\ c.age = 0 /\ c.stream = stream
    <2>1. stream \in Nat
      BY <1>3
    <2> QED BY <1>c, <1>5, <2>1 DEF Consumer
  <1>7. /\ silent' \in [manager : Times, supervisor : Times] /\ silent'.manager = silent.manager
        /\ silent'.supervisor = [silent.supervisor EXCEPT ![h.id] = 0]
    <2>1. [silent.supervisor EXCEPT ![h.id] = 0] \in Times
      BY <1>2, DirectoryAssumption DEF Times
    <2> QED BY <1>a, <1>2, <2>1
  <1>8. RegistrySound(supervised', SupervisorCapacity, silent'.supervisor) /\ Only(c, slot, supervised, supervised')
    <2>1. PICK reg, since, after, now :
              reg = supervised /\ since = silent.supervisor /\ after = supervised' /\ now = silent'.supervisor
      OBVIOUS
    <2>2. since \in Times /\ RegistrySound(reg, SupervisorCapacity, since)
      BY <1>2, <2>1
    <2>3. slot \in Find(reg, c.id) \/ (Find(reg, c.id) = {} /\ reg[slot] = Free)
      BY <1>4, <1>6, <2>1
    <2>4. after = With(reg, slot, c) /\ now = Heard(since, c.id)
      BY <1>1, <1>6, <1>7, <2>1 DEF With, Heard
    <2>5. c \in Consumer /\ c.age = 0 /\ slot \in 1 .. SupervisorCapacity /\ SupervisorCapacity \in Nat
      BY <1>2, <1>4, <1>6
    <2>6. RegistrySound(after, SupervisorCapacity, now) /\ Only(c, slot, reg, after)
      BY ONLY <2>2, <2>3, <2>4, <2>5, Placed
    <2> QED BY <2>1, <2>6
  <1>9. StreamsAssigned(supervised')
    BY <1>2, <1>3, <1>6, <1>8 DEF StreamsAssigned, Only
  <1>10. DirectoryInv'
    <2>1. FinestAsked(managed', policy') /\ ToldPublished(managed', told') /\ open' = Held(managed')
      <3>1. FinestAsked(managed, policy) /\ ToldPublished(managed, told) /\ open = Held(managed)
        BY DEF DirectoryInv
      <3> QED BY <1>a, <3>1
    <2>2. RegistrySound(managed', Capacity, silent'.manager)
      BY <1>a, <1>7 DEF DirectoryInv
    <2>3. swept' \in 0 .. Stale + 1 /\ told' \in [Ids -> Told]
      BY <1>a DEF DirectoryInv
    <2> QED BY <1>7, <1>8, <1>9, <2>1, <2>2, <2>3 DEF DirectoryInv
  <1>11. Left(supervised, supervised') = {}
    <2>1. \A i \in InUse(supervised) : i \in InUse(supervised') /\ supervised'[i].id = supervised[i].id
      BY <1>8 DEF Only
    <2> QED BY <2>1 DEF Left
  <1>12. Left(managed, managed') = {}
    BY <1>a DEF Left
  <1> QED BY <1>10, <1>11, <1>12

\* The registries differ at most in the ages of their entries.
ButAge(reg, after) ==
    /\ InUse(after) = InUse(reg)
    /\ \A i \in InUse(reg) : /\ after[i].id = reg[i].id /\ after[i].progress = reg[i].progress /\ after[i].asks = reg[i].asks
                             /\ after[i].desc_pub = reg[i].desc_pub /\ after[i].ctrl_pub = reg[i].ctrl_pub
                             /\ after[i].stream = reg[i].stream

\* Touching an entry.
LEMMA Touched ==
    ASSUME NEW reg, NEW size \in Nat, NEW since \in Times, RegistrySound(reg, size, since), NEW id \in Ids,
           Find(reg, id) # {}, NEW slot, slot = Min(Find(reg, id)), NEW c, c = Renewed(reg[slot]),
           NEW after, after = With(reg, slot, c), NEW now, now = Heard(since, id)
    PROVE  RegistrySound(after, size, now) /\ now \in Times /\ ButAge(reg, after)
  <1>1. Table(reg, size)
    BY DEF RegistrySound
  <1>2. InUse(reg) \subseteq 1 .. size /\ \A i \in InUse(reg) : reg[i] \in Consumer
    BY <1>1, InUseIs
  <1>3. Find(reg, id) \in SUBSET Nat /\ Find(reg, id) \subseteq 1 .. size /\ Find(reg, id) \subseteq InUse(reg)
    BY <1>2 DEF Find
  <1>4. \E k \in Find(reg, id) : \A j \in Find(reg, id) : k <= j
    BY <1>3, LeastOf
  <1>5. slot \in Find(reg, id)
    BY <1>4 DEF Min
  <1>6. slot \in 1 .. size /\ slot \in InUse(reg) /\ reg[slot] \in Consumer /\ reg[slot].id = id
    BY <1>2, <1>3, <1>5 DEF Find
  <1>8. /\ c \in Consumer /\ c.age = 0 /\ c.id = id
        /\ c.progress = reg[slot].progress /\ c.asks = reg[slot].asks /\ c.desc_pub = reg[slot].desc_pub
        /\ c.ctrl_pub = reg[slot].ctrl_pub /\ c.stream = reg[slot].stream
    <2>1. 0 \in 0 .. Stale + 1
      BY DirectoryAssumption
    <2> QED BY <1>6, <2>1 DEF Consumer, Renewed
  <1>10. slot \in Find(reg, c.id) /\ now = Heard(since, c.id)
    BY <1>5, <1>8
  <1>11. RegistrySound(after, size, now) /\ now \in Times /\ Only(c, slot, reg, after)
    BY <1>6, <1>8, <1>10, Placed
  <1>12. ButAge(reg, after)
    BY <1>6, <1>8, <1>11 DEF ButAge, Only
  <1> QED BY <1>11, <1>12

\* What does not depend on age stays.
LEMMA ButAgeKeeps ==
    ASSUME NEW reg, NEW after, NEW size, Table(reg, size), Table(after, size), ButAge(reg, after)
    PROVE  /\ \A p : FinestAsked(reg, p) => FinestAsked(after, p)
           /\ Held(after) = Held(reg)
           /\ \A what : ToldPublished(reg, what) => ToldPublished(after, what)
           /\ StreamsAssigned(reg) => StreamsAssigned(after)
           /\ Left(reg, after) = {}
  <1>1. \A p : FinestAsked(reg, p) => FinestAsked(after, p)
    BY SamePolicy DEF ButAge
  <1>2. Held(after) = Held(reg)
    BY SameHeld DEF ButAge
  <1>3. \A what : ToldPublished(reg, what) => ToldPublished(after, what)
    BY DEF ButAge, ToldPublished
  <1>4. StreamsAssigned(reg) => StreamsAssigned(after)
    BY DEF ButAge, StreamsAssigned
  <1>5. Left(reg, after) = {}
    BY DEF ButAge, Left
  <1> QED BY <1>1, <1>2, <1>3, <1>4, <1>5

\* A QoS message to the manager.
LEMMA ManagerTouchStep ==
    ASSUME DirectoryInv, NEW id \in Ids, ManagerTouch(id)
    PROVE  DirectoryInv' /\ Left(managed, managed') = {} /\ Left(supervised, supervised') = {}
  <1>1. /\ Find(managed, id) # {} /\ managed' = [managed EXCEPT ![Min(Find(managed, id))].age = 0]
        /\ silent' = [silent EXCEPT !.manager[id] = 0]
        /\ policy' = policy /\ supervised' = supervised /\ swept' = swept /\ open' = open /\ told' = told
    BY DEF ManagerTouch
  <1>2. /\ silent \in [manager : Times, supervisor : Times] /\ swept \in 0 .. Stale + 1
        /\ told \in [Ids -> Told] /\ silent.manager \in Times /\ silent.supervisor \in Times
        /\ RegistrySound(managed, Capacity, silent.manager)
        /\ RegistrySound(supervised, SupervisorCapacity, silent.supervisor)
        /\ FinestAsked(managed, policy) /\ open = Held(managed) /\ ToldPublished(managed, told)
        /\ StreamsAssigned(supervised) /\ Capacity \in Nat
    BY DirectoryAssumption DEF DirectoryInv
  <1>3. PICK reg, since, after, now :
            reg = managed /\ since = silent.manager /\ after = managed' /\ now = [silent.manager EXCEPT ![id] = 0]
    OBVIOUS
  <1>4. RegistrySound(after, Capacity, now) /\ now \in Times /\ ButAge(reg, after)
    <2>0. PICK slot, c : slot = Min(Find(reg, id)) /\ c = Renewed(reg[slot])
      OBVIOUS
    <2>1. after = With(reg, slot, c) /\ Find(reg, id) # {}
      BY <1>1, <1>3, <2>0 DEF With, Renewed
    <2>2. since \in Times /\ RegistrySound(reg, Capacity, since) /\ now = Heard(since, id)
      BY <1>2, <1>3 DEF Heard
    <2>3. Capacity \in Nat /\ id \in Ids
      BY <1>2
    <2> QED BY ONLY <2>0, <2>1, <2>2, <2>3, Touched
  <1>5. silent' \in [manager : Times, supervisor : Times] /\ silent'.manager = now /\ silent'.supervisor = silent.supervisor
    BY <1>1, <1>2, <1>3, <1>4
  <1>6. /\ \A p : FinestAsked(reg, p) => FinestAsked(after, p)
        /\ Held(after) = Held(reg)
        /\ \A what : ToldPublished(reg, what) => ToldPublished(after, what)
        /\ Left(reg, after) = {}
    <2>1. Table(reg, Capacity) /\ Table(after, Capacity)
      BY <1>2, <1>3, <1>4 DEF RegistrySound
    <2> QED BY <1>4, <2>1, ButAgeKeeps
  <1>7. DirectoryInv'
    <2>1. FinestAsked(managed', policy') /\ open' = Held(managed') /\ ToldPublished(managed', told')
      BY <1>1, <1>2, <1>3, <1>6
    <2>2. RegistrySound(managed', Capacity, silent'.manager)
      BY <1>3, <1>4, <1>5
    <2> QED BY <1>1, <1>2, <1>5, <2>1, <2>2 DEF DirectoryInv
  <1>8. Left(supervised, supervised') = {}
    BY <1>1 DEF Left
  <1> QED BY <1>3, <1>6, <1>7, <1>8

\* A QoS message to the supervisor.
LEMMA SupervisorTouchStep ==
    ASSUME DirectoryInv, NEW id \in Ids, SupervisorTouch(id)
    PROVE  DirectoryInv' /\ Left(managed, managed') = {} /\ Left(supervised, supervised') = {}
  <1>1. /\ Find(supervised, id) # {} /\ supervised' = [supervised EXCEPT ![Min(Find(supervised, id))].age = 0]
        /\ silent' = [silent EXCEPT !.supervisor[id] = 0]
        /\ policy' = policy /\ managed' = managed /\ swept' = swept /\ open' = open /\ told' = told
    BY DEF SupervisorTouch
  <1>2. /\ silent \in [manager : Times, supervisor : Times] /\ swept \in 0 .. Stale + 1
        /\ told \in [Ids -> Told] /\ silent.manager \in Times /\ silent.supervisor \in Times
        /\ RegistrySound(managed, Capacity, silent.manager)
        /\ RegistrySound(supervised, SupervisorCapacity, silent.supervisor)
        /\ FinestAsked(managed, policy) /\ open = Held(managed) /\ ToldPublished(managed, told)
        /\ StreamsAssigned(supervised) /\ SupervisorCapacity \in Nat
    BY DirectoryAssumption DEF DirectoryInv
  <1>3. PICK reg, since, after, now :
            /\ reg = supervised /\ after = supervised'
            /\ since = silent.supervisor /\ now = [silent.supervisor EXCEPT ![id] = 0]
    OBVIOUS
  <1>4. RegistrySound(after, SupervisorCapacity, now) /\ now \in Times /\ ButAge(reg, after)
    <2>0. PICK slot, c : slot = Min(Find(reg, id)) /\ c = Renewed(reg[slot])
      OBVIOUS
    <2>1. after = With(reg, slot, c) /\ Find(reg, id) # {}
      BY <1>1, <1>3, <2>0 DEF With, Renewed
    <2>2. since \in Times /\ RegistrySound(reg, SupervisorCapacity, since) /\ now = Heard(since, id)
      BY <1>2, <1>3 DEF Heard
    <2>3. SupervisorCapacity \in Nat /\ id \in Ids
      BY <1>2
    <2> QED BY ONLY <2>0, <2>1, <2>2, <2>3, Touched
  <1>5. silent' \in [manager : Times, supervisor : Times] /\ silent'.supervisor = now /\ silent'.manager = silent.manager
    BY <1>1, <1>2, <1>3, <1>4
  <1>6. (StreamsAssigned(reg) => StreamsAssigned(after)) /\ Left(reg, after) = {}
    <2>1. Table(reg, SupervisorCapacity) /\ Table(after, SupervisorCapacity)
      BY <1>2, <1>3, <1>4 DEF RegistrySound
    <2> QED BY <1>4, <2>1, ButAgeKeeps
  <1>7. DirectoryInv'
    <2>1. FinestAsked(managed', policy') /\ open' = Held(managed') /\ ToldPublished(managed', told')
      BY <1>1, <1>2
    <2>2. RegistrySound(supervised', SupervisorCapacity, silent'.supervisor) /\ StreamsAssigned(supervised')
      BY <1>2, <1>3, <1>4, <1>5, <1>6
    <2> QED BY <1>1, <1>2, <1>5, <2>1, <2>2 DEF DirectoryInv
  <1>8. Left(managed, managed') = {}
    BY <1>1 DEF Left
  <1> QED BY <1>3, <1>6, <1>7, <1>8

\* What the sweep leaves.
LEMMA SweepIs ==
    ASSUME NEW reg, NEW size \in Nat, NEW since \in Times, RegistrySound(reg, size, since),
           NEW after, after = Sweep(reg)
    PROVE  /\ RegistrySound(after, size, since)
           /\ InUse(after) = InUse(reg) \ SweptOut(reg) /\ \A i \in InUse(after) : after[i] = reg[i]
           /\ \A id \in Left(reg, after) : since[id] > Stale
  <1>1. Table(reg, size)
    BY DEF RegistrySound
  <1>2. /\ DOMAIN reg = 1 .. size /\ InUse(reg) \subseteq 1 .. size
        /\ \A i \in 1 .. size : reg[i] \in Consumer \cup {Free}
        /\ \A i \in 1 .. size : i \in InUse(reg) <=> reg[i] # Free
    BY <1>1, InUseIs DEF Table, InUse
  <1>3. /\ DOMAIN after = 1 .. size
        /\ \A i \in 1 .. size : after[i] = IF i \in SweptOut(reg) THEN Free ELSE reg[i]
    BY <1>2 DEF Sweep
  <1>4. Table(after, size)
    <2>1. after = [i \in 1 .. size |-> IF i \in SweptOut(reg) THEN Free ELSE reg[i]]
      BY <1>2 DEF Sweep
    <2>2. \A i \in 1 .. size : (IF i \in SweptOut(reg) THEN Free ELSE reg[i]) \in Consumer \cup {Free}
      BY <1>2
    <2> QED BY <2>1, <2>2 DEF Table
  <1>5. InUse(after) = InUse(reg) \ SweptOut(reg)
    BY <1>2, <1>3 DEF InUse
  <1>6. \A i \in InUse(after) : after[i] = reg[i]
    BY <1>2, <1>3, <1>5
  <1>7. RegistrySound(after, size, since)
    BY <1>4, <1>5, <1>6 DEF RegistrySound
  <1>8. ASSUME NEW id \in Left(reg, after) PROVE since[id] > Stale
    <2>1. PICK i \in InUse(reg) : reg[i].id = id /\ ~(\E j \in InUse(after) : after[j].id = id)
      BY DEF Left
    <2>2. i \in SweptOut(reg)
      BY <1>5, <1>6, <2>1
    <2> QED BY <2>1, <2>2 DEF SweptOut, RegistrySound
  <1> QED BY <1>5, <1>6, <1>7, <1>8

\* The manager's sweep closes the publications of those that leave, and only those.
LEMMA ManagerSweepStep ==
    ASSUME DirectoryInv, ManagerSweep
    PROVE  /\ DirectoryInv' /\ Left(supervised, supervised') = {}
           /\ \A id \in Left(managed, managed') : silent.manager[id] > Stale
  <1>1. /\ managed' = Sweep(managed) /\ policy' = Aggregate(Sweep(managed))
        /\ open' = {p \in open : p[1] \notin SweptIds(managed)}
        /\ told' = [id \in Ids |-> IF id \in SweptIds(managed) THEN Untold ELSE told[id]]
        /\ supervised' = supervised /\ swept' = swept /\ silent' = silent
    BY DEF ManagerSweep
  <1>2. /\ silent \in [manager : Times, supervisor : Times] /\ swept \in 0 .. Stale + 1
        /\ told \in [Ids -> Told] /\ silent.manager \in Times /\ silent.supervisor \in Times
        /\ RegistrySound(managed, Capacity, silent.manager) /\ Table(managed, Capacity)
        /\ RegistrySound(supervised, SupervisorCapacity, silent.supervisor)
        /\ open = Held(managed) /\ ToldPublished(managed, told) /\ StreamsAssigned(supervised) /\ Capacity \in Nat
    BY DirectoryAssumption DEF DirectoryInv, RegistrySound
  <1>3. /\ RegistrySound(managed', Capacity, silent.manager)
        /\ InUse(managed') = InUse(managed) \ SweptOut(managed) /\ \A i \in InUse(managed') : managed'[i] = managed[i]
        /\ \A id \in Left(managed, managed') : silent.manager[id] > Stale
    BY <1>1, <1>2, SweepIs
  <1>4. Table(managed', Capacity)
    BY <1>3 DEF RegistrySound
  <1>5. FinestAsked(managed', policy')
    <2>1. policy' = Aggregate(managed')
      BY <1>1
    <2> QED BY <1>2, <1>4, <2>1, AggregateIsFinest
  <1>6. open' = Held(managed')
    <2>1. \A p : p \in open <=> \E i \in InUse(managed) : Publishes(managed[i], p)
      BY <1>2, HeldIs
    <2>2. \A p : p \in Held(managed') <=> \E i \in InUse(managed') : Publishes(managed'[i], p)
      BY <1>4, HeldIs
    <2>3. \A p : p \in open' <=> p \in open /\ \A j \in SweptOut(managed) : managed[j].id # p[1]
      BY <1>1 DEF SweptIds
    <2>4. \A p : \A i \in InUse(managed) : Publishes(managed[i], p) => p[1] = managed[i].id
      BY DEF Publishes
    <2>5. \A i, j \in InUse(managed) : managed[i].id = managed[j].id => i = j
      BY <1>2 DEF RegistrySound
    <2>6. SweptOut(managed) \subseteq InUse(managed)
      BY DEF SweptOut
    <2>7. \A p : p \in open' => p \in Held(managed')
      <3> SUFFICES ASSUME NEW p, p \in open' PROVE \E i \in InUse(managed') : Publishes(managed'[i], p)
        BY <2>2
      <3>1. PICK i \in InUse(managed) : Publishes(managed[i], p)
        BY <2>1, <2>3
      <3>2. i \in InUse(managed')
        BY <1>3, <2>3, <2>4, <3>1
      <3> QED BY <1>3, <3>1, <3>2
    <2>8. \A p : p \in Held(managed') => p \in open'
      <3> SUFFICES ASSUME NEW p, NEW i \in InUse(managed'), Publishes(managed'[i], p) PROVE p \in open'
        BY <2>2
      <3>1. i \in InUse(managed) /\ i \notin SweptOut(managed) /\ Publishes(managed[i], p)
        BY <1>3
      <3>2. \A j \in SweptOut(managed) : managed[j].id # p[1]
        BY <2>4, <2>5, <2>6, <3>1
      <3> QED BY <2>1, <2>3, <3>1, <3>2
    <2> QED BY <2>7, <2>8
  <1>7. told' \in [Ids -> Told] /\ ToldPublished(managed', told')
    <2>1. Untold \in Told
      BY DEF Untold, Told
    <2>2. told' \in [Ids -> Told]
      BY <1>1, <1>2, <2>1
    <2>3. ASSUME NEW i \in InUse(managed') PROVE told'[managed'[i].id] = told[managed[i].id] /\ managed'[i] = managed[i]
      <3>1. i \in InUse(managed) /\ i \notin SweptOut(managed) /\ managed'[i] = managed[i] /\ managed[i].id \in Ids
        BY <1>2, <1>3, InUseIs
      <3>2. \A j \in SweptOut(managed) : managed[j].id # managed[i].id
        BY <1>2, <3>1 DEF SweptOut, RegistrySound
      <3> QED BY <1>1, <3>1, <3>2 DEF SweptIds
    <2>4. InUse(managed') \subseteq InUse(managed)
      BY <1>3
    <2> QED BY <1>2, <2>2, <2>3, <2>4 DEF ToldPublished
  <1>8. DirectoryInv'
    BY <1>1, <1>2, <1>3, <1>5, <1>6, <1>7 DEF DirectoryInv
  <1>9. Left(supervised, supervised') = {}
    BY <1>1 DEF Left
  <1> QED BY <1>3, <1>8, <1>9

\* The supervisor's sweep.
LEMMA SupervisorSweepStep ==
    ASSUME DirectoryInv, SupervisorSweep
    PROVE  /\ DirectoryInv' /\ Left(managed, managed') = {}
           /\ \A id \in Left(supervised, supervised') : silent.supervisor[id] > Stale
  <1>1. /\ supervised' = Sweep(supervised) /\ swept' = 0
        /\ managed' = managed /\ policy' = policy /\ open' = open /\ told' = told /\ silent' = silent
    BY DEF SupervisorSweep
  <1>2. /\ silent \in [manager : Times, supervisor : Times] /\ 0 \in 0 .. Stale + 1
        /\ told \in [Ids -> Told] /\ silent.manager \in Times /\ silent.supervisor \in Times
        /\ RegistrySound(managed, Capacity, silent.manager)
        /\ RegistrySound(supervised, SupervisorCapacity, silent.supervisor)
        /\ FinestAsked(managed, policy) /\ open = Held(managed) /\ ToldPublished(managed, told)
        /\ StreamsAssigned(supervised) /\ SupervisorCapacity \in Nat
    BY DirectoryAssumption DEF DirectoryInv
  <1>3. /\ RegistrySound(supervised', SupervisorCapacity, silent.supervisor)
        /\ InUse(supervised') = InUse(supervised) \ SweptOut(supervised)
        /\ \A i \in InUse(supervised') : supervised'[i] = supervised[i]
        /\ \A id \in Left(supervised, supervised') : silent.supervisor[id] > Stale
    BY <1>1, <1>2, SweepIs
  <1>4. StreamsAssigned(supervised')
    BY <1>2, <1>3 DEF StreamsAssigned
  <1>5. FinestAsked(managed', policy') /\ open' = Held(managed') /\ ToldPublished(managed', told')
    BY <1>1, <1>2
  <1>6. DirectoryInv'
    BY <1>1, <1>2, <1>3, <1>4, <1>5 DEF DirectoryInv
  <1>7. Left(managed, managed') = {}
    BY <1>1 DEF Left
  <1> QED BY <1>3, <1>6, <1>7

\* The times since consumers were heard, one tick later.
Later(since) == [id \in Ids |-> LongerAgo(since[id], Stale)]

\* Entries grow old with the silence of their consumers.
LEMMA AgedIs ==
    ASSUME NEW reg, NEW size \in Nat, NEW since \in Times, RegistrySound(reg, size, since),
           NEW after, after = Aged(reg), NEW now, now = Later(since)
    PROVE  RegistrySound(after, size, now) /\ now \in Times /\ ButAge(reg, after)
  <1>1. Table(reg, size)
    BY DEF RegistrySound
  <1>2. /\ DOMAIN reg = 1 .. size /\ InUse(reg) \subseteq 1 .. size
        /\ \A i \in InUse(reg) : reg[i] \in Consumer /\ reg[i].id \in Ids
        /\ \A i \in 1 .. size : i \in InUse(reg) <=> reg[i] # Free
    BY <1>1, InUseIs DEF InUse
  <1>3. \A a \in 0 .. Stale + 1 : LongerAgo(a, Stale) \in 0 .. Stale + 1
    BY DirectoryAssumption DEF LongerAgo
  <1>4. now \in Times /\ \A id \in Ids : now[id] = LongerAgo(since[id], Stale)
    BY <1>3 DEF Later, Times
  <1> DEFINE Grown(c) == [c EXCEPT !.age = LongerAgo(@, Stale)]
  <1>5. ASSUME NEW c \in Consumer
        PROVE  /\ Grown(c) \in Consumer /\ Grown(c).age = LongerAgo(c.age, Stale) /\ Grown(c).id = c.id
               /\ Grown(c).progress = c.progress /\ Grown(c).asks = c.asks /\ Grown(c).desc_pub = c.desc_pub
               /\ Grown(c).ctrl_pub = c.ctrl_pub /\ Grown(c).stream = c.stream
    <2>1. c.age \in 0 .. Stale + 1
      BY DEF Consumer
    <2>2. PICK a \in 0 .. Stale + 1 : a = LongerAgo(c.age, Stale)
      BY <1>3, <2>1
    <2>3. Grown(c) = [c EXCEPT !.age = a]
      BY <2>2
    <2> HIDE DEF Grown
    <2> QED BY <2>2, <2>3 DEF Consumer
  <1>6. after = [i \in 1 .. size |-> IF reg[i] = Free THEN Free ELSE Grown(reg[i])]
    BY <1>2 DEF Aged
  <1> HIDE DEF Grown
  <1>7. \A i \in 1 .. size : IF i \in InUse(reg) THEN after[i] = Grown(reg[i]) /\ after[i] \in Consumer ELSE after[i] = Free
    BY <1>2, <1>5, <1>6
  <1>8. Table(after, size)
    <2>1. after = [i \in 1 .. size |-> after[i]] /\ \A i \in 1 .. size : after[i] \in Consumer \cup {Free}
      BY <1>6, <1>7
    <2> QED BY <2>1 DEF Table
  <1>9. InUse(after) = InUse(reg)
    <2>1. InUse(after) \subseteq 1 .. size /\ \A i \in 1 .. size : i \in InUse(after) <=> after[i] \in Consumer
      BY <1>8, InUseIs
    <2>2. \A i \in 1 .. size : i \notin InUse(after) <=> after[i] = Free
      BY <1>8, InUseIs
    <2> QED BY <1>2, <1>7, <2>1, <2>2
  <1>10. ButAge(reg, after)
    BY <1>2, <1>5, <1>7, <1>9 DEF ButAge
  <1>11. \A i \in InUse(after) : after[i].age = now[after[i].id]
    <2> TAKE i \in InUse(after)
    <2>1. i \in InUse(reg) /\ reg[i] \in Consumer /\ reg[i].id \in Ids /\ reg[i].age = since[reg[i].id]
      BY <1>2, <1>9 DEF RegistrySound
    <2>2. after[i].age = LongerAgo(reg[i].age, Stale) /\ after[i].id = reg[i].id
      BY <1>2, <1>5, <1>7, <2>1
    <2> QED BY <1>4, <2>1, <2>2
  <1>12. \A i, j \in InUse(after) : after[i].id = after[j].id => i = j
    BY <1>10 DEF ButAge, RegistrySound
  <1> QED BY <1>4, <1>8, <1>10, <1>11, <1>12 DEF RegistrySound

\* Time passes.
LEMMA DirectoryTickKeeps ==
    ASSUME DirectoryInv, DirectoryTick
    PROVE  DirectoryInv' /\ Left(managed, managed') = {} /\ Left(supervised, supervised') = {}
  <1>1. /\ managed' = Aged(managed) /\ supervised' = Aged(supervised) /\ swept' = LongerAgo(swept, Stale)
        /\ silent' = [r \in DOMAIN silent |-> [id \in Ids |-> LongerAgo(silent[r][id], Stale)]]
        /\ policy' = policy /\ open' = open /\ told' = told
    BY DEF DirectoryTick
  <1>2. /\ silent \in [manager : Times, supervisor : Times] /\ swept \in 0 .. Stale + 1
        /\ told \in [Ids -> Told] /\ silent.manager \in Times /\ silent.supervisor \in Times
        /\ RegistrySound(managed, Capacity, silent.manager)
        /\ RegistrySound(supervised, SupervisorCapacity, silent.supervisor)
        /\ FinestAsked(managed, policy) /\ open = Held(managed) /\ ToldPublished(managed, told)
        /\ StreamsAssigned(supervised) /\ SupervisorCapacity \in Nat /\ Capacity \in Nat
    BY DirectoryAssumption DEF DirectoryInv
  <1>3. /\ RegistrySound(managed', Capacity, Later(silent.manager)) /\ Later(silent.manager) \in Times
        /\ ButAge(managed, managed')
    BY <1>1, <1>2, AgedIs
  <1>4. /\ RegistrySound(supervised', SupervisorCapacity, Later(silent.supervisor)) /\ Later(silent.supervisor) \in Times
        /\ ButAge(supervised, supervised')
    BY <1>1, <1>2, AgedIs
  <1>5. /\ silent' \in [manager : Times, supervisor : Times]
        /\ silent'.manager = Later(silent.manager) /\ silent'.supervisor = Later(silent.supervisor)
    <2>1. DOMAIN silent = {"manager", "supervisor"}
      BY <1>2
    <2>2. silent' = [r \in {"manager", "supervisor"} |-> Later(silent[r])]
      BY <1>1, <2>1 DEF Later
    <2>3. silent' = [manager |-> Later(silent.manager), supervisor |-> Later(silent.supervisor)]
      BY <2>2
    <2> QED BY <1>3, <1>4, <2>3
  <1>6. swept' \in 0 .. Stale + 1
    BY <1>1, <1>2, DirectoryAssumption DEF LongerAgo
  <1>7. /\ FinestAsked(managed', policy) /\ Held(managed') = Held(managed) /\ ToldPublished(managed', told)
        /\ Left(managed, managed') = {}
    <2>1. Table(managed, Capacity) /\ Table(managed', Capacity)
      BY <1>2, <1>3 DEF RegistrySound
    <2> QED BY <1>2, <1>3, <2>1, ButAgeKeeps
  <1>8. StreamsAssigned(supervised') /\ Left(supervised, supervised') = {}
    <2>1. Table(supervised, SupervisorCapacity) /\ Table(supervised', SupervisorCapacity)
      BY <1>2, <1>4 DEF RegistrySound
    <2> QED BY <1>2, <1>4, <2>1, ButAgeKeeps
  <1>9. FinestAsked(managed', policy') /\ open' = Held(managed') /\ ToldPublished(managed', told')
    BY <1>1, <1>2, <1>7
  <1>10. DirectoryInv'
    <2>1. /\ RegistrySound(managed', Capacity, silent'.manager)
          /\ RegistrySound(supervised', SupervisorCapacity, silent'.supervisor)
      BY <1>3, <1>4, <1>5
    <2> QED BY <1>1, <1>2, <1>5, <1>6, <1>8, <1>9, <2>1 DEF DirectoryInv
  <1> QED BY <1>7, <1>8, <1>10

\* Nobody is there at first.
LEMMA DirectoryInitial == DirectoryInit => DirectoryInv
  <1> SUFFICES ASSUME DirectoryInit PROVE DirectoryInv
    OBVIOUS
  <1>1. /\ managed = [i \in 1 .. Capacity |-> Free] /\ policy = Default
        /\ supervised = [i \in 1 .. SupervisorCapacity |-> Free] /\ swept = 0 /\ open = {}
        /\ told = [id \in Ids |-> Untold]
        /\ silent = [manager |-> [id \in Ids |-> 0], supervisor |-> [id \in Ids |-> 0]]
    BY DEF DirectoryInit
  <1>2. 0 \in 0 .. Stale + 1 /\ [id \in Ids |-> 0] \in Times
    BY DirectoryAssumption DEF Times
  <1>3. silent \in [manager : Times, supervisor : Times] /\ swept \in 0 .. Stale + 1 /\ told \in [Ids -> Told]
    <2>1. Untold \in Told
      BY DEF Untold, Told
    <2> QED BY <1>1, <1>2, <2>1
  <1>4. Table(managed, Capacity) /\ Table(supervised, SupervisorCapacity)
    BY <1>1 DEF Table
  <1>5. InUse(managed) = {} /\ InUse(supervised) = {}
    BY <1>1 DEF InUse
  <1>6. RegistrySound(managed, Capacity, silent.manager) /\ RegistrySound(supervised, SupervisorCapacity, silent.supervisor)
    BY <1>4, <1>5 DEF RegistrySound
  <1>7. ToldPublished(managed, told) /\ StreamsAssigned(supervised)
    BY <1>5 DEF ToldPublished, StreamsAssigned
  <1>8. open = Held(managed)
    <2>1. \A p : p \notin Held(managed)
      BY <1>4, <1>5, HeldIs
    <2> QED BY <1>1, <2>1
  <1>9. FinestAsked(managed, policy)
    BY <1>1, <1>5 DEF FinestAsked
  <1> QED BY <1>3, <1>6, <1>7, <1>8, <1>9 DEF DirectoryInv

\* Every step keeps the invariant, and who leaves has been silent.
LEMMA DirectoryStep ==
    ASSUME DirectoryInv, [DirectoryNext]_directoryVars
    PROVE  /\ DirectoryInv'
           /\ \A id \in Left(managed, managed') : silent.manager[id] > Stale
           /\ \A id \in Left(supervised, supervised') : silent.supervisor[id] > Stale
  <1>1. CASE \E h \in Hellos : ManagerHandleHello(h) \/ SupervisorHandleHello(h)
    BY <1>1, ManagerHandleHelloStep, SupervisorHandleHelloStep
  <1>2. CASE \E id \in Ids : ManagerTouch(id) \/ SupervisorTouch(id)
    BY <1>2, ManagerTouchStep, SupervisorTouchStep
  <1>3. CASE ManagerSweep
    BY <1>3, ManagerSweepStep
  <1>4. CASE SupervisorSweep
    BY <1>4, SupervisorSweepStep
  <1>5. CASE DirectoryTick
    BY <1>5, DirectoryTickKeeps
  <1>6. CASE UNCHANGED directoryVars
    <2>1. /\ managed' = managed /\ policy' = policy /\ supervised' = supervised /\ swept' = swept
          /\ open' = open /\ told' = told /\ silent' = silent
      BY <1>6 DEF directoryVars
    <2>2. DirectoryInv'
      <3>1. /\ FinestAsked(managed, policy) /\ ToldPublished(managed, told) /\ open = Held(managed)
            /\ RegistrySound(managed, Capacity, silent.manager) /\ StreamsAssigned(supervised)
            /\ RegistrySound(supervised, SupervisorCapacity, silent.supervisor)
            /\ silent \in [manager : Times, supervisor : Times] /\ swept \in 0 .. Stale + 1
            /\ told \in [Ids -> Told]
        BY DEF DirectoryInv
      <3>2. /\ FinestAsked(managed', policy') /\ ToldPublished(managed', told') /\ open' = Held(managed')
            /\ RegistrySound(managed', Capacity, silent'.manager) /\ StreamsAssigned(supervised')
            /\ RegistrySound(supervised', SupervisorCapacity, silent'.supervisor)
        BY <2>1, <3>1
      <3> QED BY <2>1, <3>1, <3>2 DEF DirectoryInv
    <2>3. Left(managed, managed') = {} /\ Left(supervised, supervised') = {}
      BY <2>1 DEF Left
    <2> QED BY <2>2, <2>3
  <1> QED BY <1>1, <1>2, <1>3, <1>4, <1>5, <1>6 DEF DirectoryNext

\* A set with at most one member.
LEMMA AtMostOne ==
    ASSUME NEW S, \A x, y \in S : x = y
    PROVE  Cardinality(S) <= 1
  <1>1. CASE S = {}
    BY <1>1, FS_EmptySet
  <1>2. CASE S # {}
    <2>1. PICK x : x \in S
      BY <1>2
    <2>2. S = {x}
      BY <2>1
    <2> QED BY <2>2, FS_Singleton
  <1> QED BY <1>1, <1>2

\* The invariant says what is promised.
LEMMA DirectoryInvSound == DirectoryInv => RegistriesSound
  <1> SUFFICES ASSUME DirectoryInv PROVE RegistriesSound
    OBVIOUS
  <1>1. /\ RegistrySound(managed, Capacity, silent.manager)
        /\ RegistrySound(supervised, SupervisorCapacity, silent.supervisor)
        /\ swept \in 0 .. Stale + 1 /\ FinestAsked(managed, policy) /\ open = Held(managed)
        /\ ToldPublished(managed, told) /\ StreamsAssigned(supervised)
    BY DEF DirectoryInv
  <1>2. Table(managed, Capacity) /\ Table(supervised, SupervisorCapacity)
    BY <1>1 DEF RegistrySound
  <1>3. ASSUME NEW id \in Ids PROVE Cardinality(Find(managed, id)) <= 1 /\ Cardinality(Find(supervised, id)) <= 1
    <2>1. \A i, j \in Find(managed, id) : i = j
      BY <1>1 DEF RegistrySound, Find
    <2>2. \A i, j \in Find(supervised, id) : i = j
      BY <1>1 DEF RegistrySound, Find
    <2> QED BY <2>1, <2>2, AtMostOne
  <1>4. \A i \in InUse(managed) : managed[i].id \in Ids /\ managed[i].age \in 0 .. Stale + 1
    <2>1. \A c \in Consumer : c.id \in Ids /\ c.age \in 0 .. Stale + 1
      BY DEF Consumer
    <2> QED BY <1>2, <2>1, InUseIs
  <1>5. DirectoryTypeOK
    <2>1. DOMAIN managed = 1 .. Capacity /\ DOMAIN supervised = 1 .. SupervisorCapacity
      BY <1>2, InUseIs
    <2> QED BY <1>1, <1>3, <1>4, <2>1 DEF DirectoryTypeOK
  <1>6. PolicyIsFinestAsked
    BY <1>1 DEF PolicyIsFinestAsked, FinestAsked
  <1>7. PublicationsOwned /\ AssignedIsPublished
    BY <1>1 DEF PublicationsOwned, AssignedIsPublished, ToldPublished, PublishedAs
  <1>8. AssignedStreamsDistinct
    <2> SUFFICES ASSUME NEW i \in InUse(supervised), NEW j \in InUse(supervised), i # j,
                        supervised[i].stream = supervised[j].stream, supervised[i].stream # 0
                 PROVE  supervised[i].id % AssignRange = supervised[j].id % AssignRange
      BY DEF AssignedStreamsDistinct
    <2>1. PICK x \in Ids, y \in Ids : x = supervised[i].id /\ y = supervised[j].id
      BY <1>2, InUseIs
    <2>2. AssignStreamId(x) = AssignStreamId(y) /\ AssignStreamId(x) # 0
      BY <1>1, <2>1 DEF StreamsAssigned
    <2>3. x \in Nat /\ y \in Nat /\ AssignBase \in Nat /\ AssignRange \in Nat
      BY DirectoryAssumption
    <2>4. /\ AssignRange # 0 /\ AssignBase + (x % AssignRange) = AssignBase + (y % AssignRange)
      BY <2>2 DEF AssignStreamId
    <2>5. x % AssignRange \in Int /\ y % AssignRange \in Int
      BY <2>3, <2>4
    <2>6. \A b \in Nat, s, t \in Int : b + s = b + t => s = t
      OBVIOUS
    <2>7. x % AssignRange = y % AssignRange
      BY <2>3, <2>4, <2>5, <2>6
    <2> QED BY <2>1, <2>7
  <1> QED BY <1>5, <1>6, <1>7, <1>8 DEF RegistriesSound

\* The registries' invariant.
LEMMA DirectoryInvariant == DirectorySpec => []DirectoryInv
  <1>1. DirectoryInv /\ [DirectoryNext]_directoryVars => DirectoryInv'
    BY DirectoryStep
  <1> QED BY <1>1, DirectoryInitial, PTL DEF DirectorySpec

\* Whatever the consumers, their hellos, the capacities and the stale time are: manager
\* and supervisor know a consumer once, the progress policy in force is the finest one a
\* present consumer asks for, every publication opened for a consumer and not closed
\* belongs to an entry, who was told to listen on a stream of its own has a publication,
\* at a destination it named (the one it was told, if it named no other), and the streams
\* the supervisor assigns differ for ids that differ modulo the range.
THEOREM RegistriesCorrect == DirectorySpec => []RegistriesSound
  BY DirectoryInvariant, DirectoryInvSound, PTL

\* A consumer leaves the manager's or the supervisor's registry only after it has been
\* silent for longer than the stale time: a hello never displaces another's entry
\* (tp_consumer_registry_alloc takes unused ones), and a sweep never takes one that was heard.
THEOREM SilentOnlyLeaves == DirectorySpec => OnlySilentLeave
  <1> DEFINE A == /\ \A id \in Left(managed, managed') : silent.manager[id] > Stale
                  /\ \A id \in Left(supervised, supervised') : silent.supervisor[id] > Stale
  <1>1. DirectoryInv /\ [DirectoryNext]_directoryVars => [A]_directoryVars
    BY DirectoryStep
  <1>2. OnlySilentLeave <=> [][A]_directoryVars
    BY DEF OnlySilentLeave
  <1> HIDE DEF A
  <1> QED BY <1>1, <1>2, DirectoryInvariant, PTL DEF DirectorySpec
=============================================================================
