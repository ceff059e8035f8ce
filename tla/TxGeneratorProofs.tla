------------------------- MODULE TxGeneratorProofs -------------------------
(***************************************************************************)
(* What claims the sample generator can make, for samples of any length,   *)
(* any set of clients and any ids.                                         *)
(***************************************************************************)
EXTENDS TxGenerator, FiniteSetTheorems, SequenceTheorems, TLAPS

-----------------------------------------------------------------------------
(* The lists. *)

TargetBag == UNION {[S -> Nat \ {0}] : S \in SUBSET Target}

(* The lists hold pairs of a client and an id, and the history commands. *)
GeneratorTypeOK ==
  /\ next_tx \in Nat
  /\ disputable_tx \in TargetBag
  /\ open_disputes \in TargetBag
  /\ generated \in Seq(Command)

Copies(bag, pair) == IF pair \in DOMAIN bag THEN bag[pair] ELSE 0

(* Nothing is in the list that was not there as often. *)
Within(bag, list) ==
  \A pair \in DOMAIN bag : pair \in DOMAIN list /\ bag[pair] <= list[pair]

(* The pair is in the list once more, the others at most as often. *)
WithOneMore(bag, list, one) ==
  /\ one \in DOMAIN bag /\ bag[one] = Copies(list, one) + 1
  /\ \A pair \in DOMAIN bag : pair # one =>
       pair \in DOMAIN list /\ bag[pair] <= list[pair]

LEMMA BagFacts ==
  ASSUME NEW list \in TargetBag
  PROVE  DOMAIN list \subseteq Target /\ \A pair \in DOMAIN list : list[pair] \in Nat \ {0}
BY DEF TargetBag

LEMMA AddOne ==
  ASSUME NEW list \in TargetBag, NEW one \in Target
  PROVE  BagAdd(list, one) \in TargetBag /\ WithOneMore(BagAdd(list, one), list, one)
<1>1. DOMAIN list \subseteq Target /\ \A pair \in DOMAIN list : list[pair] \in Nat \ {0}
  BY BagFacts
<1>2. PICK bag : bag = BagAdd(list, one)
  OBVIOUS
<1>3. /\ DOMAIN bag = DOMAIN list \cup {one}
      /\ bag = [pair \in DOMAIN bag |-> bag[pair]]
      /\ bag[one] = Copies(list, one) + 1
      /\ \A pair \in DOMAIN list : pair # one => bag[pair] = list[pair]
  <2>1. CASE one \in DOMAIN list
    <3>1. bag = [pair \in DOMAIN list |-> IF pair = one THEN list[pair] + 1 ELSE list[pair]]
      BY <1>2, <2>1 DEF BagAdd
    <3>2. QED
      BY <2>1, <3>1 DEF Copies
  <2>2. CASE one \notin DOMAIN list
    <3>1. bag = [pair \in DOMAIN list \cup {one} |-> IF pair = one THEN 1 ELSE list[pair]]
      BY <1>2, <2>2 DEF BagAdd
    <3>2. QED
      BY <2>2, <3>1 DEF Copies
  <2>3. QED
    BY <2>1, <2>2
<1>4. \A pair \in DOMAIN bag : bag[pair] \in Nat \ {0}
  <2>1. Copies(list, one) + 1 \in Nat \ {0}
    BY <1>1 DEF Copies
  <2>2. QED
    BY <1>1, <1>3, <2>1
<1>5. bag \in [DOMAIN bag -> Nat \ {0}] /\ DOMAIN bag \in SUBSET Target
  BY <1>1, <1>3, <1>4
<1>6. WithOneMore(bag, list, one)
  BY <1>1, <1>3 DEF WithOneMore
<1>7. QED
  BY <1>2, <1>5, <1>6 DEF TargetBag

LEMMA RemoveOne ==
  ASSUME NEW list \in TargetBag, NEW one \in DOMAIN list
  PROVE  BagRemove(list, one) \in TargetBag /\ Within(BagRemove(list, one), list)
<1>1. DOMAIN list \subseteq Target /\ \A pair \in DOMAIN list : list[pair] \in Nat \ {0}
  BY BagFacts
<1>2. PICK bag : bag = BagRemove(list, one)
  OBVIOUS
<1>3. CASE list[one] = 1
  <2>1. bag = [pair \in DOMAIN list \ {one} |-> list[pair]]
    BY <1>2, <1>3 DEF BagRemove
  <2>2. bag \in [DOMAIN list \ {one} -> Nat \ {0}] /\ DOMAIN list \ {one} \in SUBSET Target
    BY <1>1, <2>1
  <2>3. Within(bag, list)
    BY <1>1, <2>1 DEF Within
  <2>4. QED
    BY <1>2, <2>2, <2>3 DEF TargetBag
<1>4. CASE list[one] # 1
  <2>1. bag = [pair \in DOMAIN list |-> IF pair = one THEN list[pair] - 1 ELSE list[pair]]
    BY <1>2, <1>4 DEF BagRemove
  <2>2. list[one] - 1 \in Nat \ {0} /\ list[one] - 1 <= list[one]
    BY <1>1, <1>4
  <2>3. bag \in [DOMAIN list -> Nat \ {0}] /\ DOMAIN list \in SUBSET Target
    BY <1>1, <2>1, <2>2
  <2>4. Within(bag, list)
    BY <1>1, <2>1, <2>2 DEF Within
  <2>5. QED
    BY <1>2, <2>3, <2>4 DEF TargetBag
<1>5. QED
  BY <1>3, <1>4

(* What is picked is in the list, and what is left was there. *)
LEMMA Picked ==
  ASSUME NEW list \in TargetBag, NEW pick \in PickDispute(list)
  PROVE  /\ pick.rest \in TargetBag /\ Within(pick.rest, list)
         /\ pick.base = {} \/ \E pair \in DOMAIN list : pick.base = {pair}
<1>1. Within(list, list)
  BY BagFacts DEF Within
<1>2. CASE list = EmptyBag
  BY <1>1, <1>2 DEF PickDispute
<1>3. CASE list # EmptyBag
  <2>1. PICK pair \in DOMAIN list :
          \E rest \in {list, BagRemove(list, pair)} : pick = [base |-> {pair}, rest |-> rest]
    BY <1>3 DEF PickDispute, BagToSet
  <2>2. QED
    BY <1>1, <2>1, RemoveOne
<1>4. QED
  BY <1>2, <1>3

(* Whatever is replaced, the claim is about a client and an id. *)
LEMMA Derived ==
  ASSUME NEW base \in SUBSET Target, NEW pair \in DeriveDispute(base)
  PROVE  pair \in Target
<1>1. RandomId \subseteq TransactionId
  BY CountsAssumption DEF RandomId
<1>2. QED
  BY <1>1 DEF DeriveDispute, Target

(* A list gains at most the pair that was picked from the other. *)
LEMMA RememberedOne ==
  ASSUME NEW list \in TargetBag, NEW base, NEW pair \in Target,
         NEW new \in Remembered(list, pair, base)
  PROVE  /\ new \in TargetBag
         /\ Within(new, list) \/ (base = {pair} /\ WithOneMore(new, list, pair))
<1>1. Within(list, list)
  BY BagFacts DEF Within
<1>2. QED
  BY <1>1, AddOne DEF Remembered

-----------------------------------------------------------------------------
(* A command and what it does to the lists. *)

Concerns(cmd, types, pair) ==
  /\ cmd.type \in types
  /\ pair = <<cmd.client, IF cmd.type \in {"Deposit", "Withdrawal"} THEN cmd.id ELSE cmd.tx>>

(* The command is generated; a list gains at most a pair that the command  *)
(* concerns, which was in the other list if the command is a claim.        *)
Generates(cmd) ==
  /\ generated' = Append(generated, cmd)
  /\ \/ Within(open_disputes', open_disputes)
     \/ \E pair \in DOMAIN disputable_tx :
          /\ Concerns(cmd, {"Dispute"}, pair)
          /\ WithOneMore(open_disputes', open_disputes, pair)
  /\ \/ Within(disputable_tx', disputable_tx)
     \/ \E pair \in Target :
          /\ Concerns(cmd, {"Deposit", "Withdrawal"}, pair)
          /\ WithOneMore(disputable_tx', disputable_tx, pair)
     \/ \E pair \in DOMAIN open_disputes :
          /\ Concerns(cmd, {"Resolve", "Chargeback"}, pair)
          /\ WithOneMore(disputable_tx', disputable_tx, pair)

LEMMA GenTxGenerates ==
  ASSUME GeneratorTypeOK,
         NEW type \in {"Deposit", "Withdrawal"}, NEW client \in ClientId,
         NEW id \in TransactionId, NEW amount \in Amounts, NEW remember \in BOOLEAN,
         GenTx(type, client, id, amount, remember)
  PROVE  GeneratorTypeOK' /\ \E cmd \in Command : Generates(cmd)
<1>1. PICK cmd : cmd = [type |-> type, id |-> id, client |-> client, amount |-> amount]
  OBVIOUS
<1>2. cmd \in Command /\ <<client, id>> \in Target
  BY <1>1 DEF Command, Transaction, Target
<1>3. Concerns(cmd, {"Deposit", "Withdrawal"}, <<client, id>>)
  BY <1>1 DEF Concerns
<1>4. generated' = Append(generated, cmd) /\ open_disputes' = open_disputes
  BY <1>1 DEF GenTx, Write
<1>5. next_tx' \in Nat /\ generated' \in Seq(Command) /\ open_disputes' \in TargetBag
  BY <1>2, <1>4, AppendProperties DEF GeneratorTypeOK, GenTx
<1>6. /\ disputable_tx' \in TargetBag
      /\ \/ Within(disputable_tx', disputable_tx)
         \/ WithOneMore(disputable_tx', disputable_tx, <<client, id>>)
  <2>1. Within(disputable_tx, disputable_tx)
    BY BagFacts DEF GeneratorTypeOK, Within
  <2>2. QED
    BY <1>2, <2>1, AddOne DEF GenTx, GeneratorTypeOK
<1>7. Within(open_disputes', open_disputes)
  BY <1>4, BagFacts DEF GeneratorTypeOK, Within
<1>8. Generates(cmd)
  BY <1>2, <1>3, <1>4, <1>6, <1>7 DEF Generates
<1>9. QED
  BY <1>2, <1>5, <1>6, <1>8 DEF GeneratorTypeOK

LEMMA GenDisputeGenerates ==
  ASSUME GeneratorTypeOK, GenDispute
  PROVE  GeneratorTypeOK' /\ \E cmd \in Command : Generates(cmd)
<1>1. PICK pick \in PickDispute(disputable_tx) :
        \E pair \in DeriveDispute(pick.base) :
          /\ disputable_tx' = pick.rest
          /\ open_disputes' \in Remembered(open_disputes, pair, pick.base)
          /\ Write([type |-> "Dispute", client |-> pair[1], tx |-> pair[2]])
          /\ UNCHANGED next_tx
  BY DEF GenDispute
<1>2. PICK pair \in DeriveDispute(pick.base) :
        /\ disputable_tx' = pick.rest
        /\ open_disputes' \in Remembered(open_disputes, pair, pick.base)
        /\ Write([type |-> "Dispute", client |-> pair[1], tx |-> pair[2]])
        /\ UNCHANGED next_tx
  BY <1>1
<1>3. /\ pick.rest \in TargetBag /\ Within(pick.rest, disputable_tx)
      /\ pick.base = {} \/ \E one \in DOMAIN disputable_tx : pick.base = {one}
  BY Picked DEF GeneratorTypeOK
<1>4. pick.base \in SUBSET Target
  BY <1>3, BagFacts DEF GeneratorTypeOK
<1>5. pair \in Target
  BY <1>4, Derived
<1>6. PICK cmd : cmd = [type |-> "Dispute", client |-> pair[1], tx |-> pair[2]]
  OBVIOUS
<1>7. cmd \in Command /\ Concerns(cmd, {"Dispute"}, pair)
  BY <1>5, <1>6 DEF Command, Claim, Concerns, Target
<1>8. /\ open_disputes' \in TargetBag
      /\ \/ Within(open_disputes', open_disputes)
         \/ pick.base = {pair} /\ WithOneMore(open_disputes', open_disputes, pair)
  BY <1>2, <1>5, RememberedOne DEF GeneratorTypeOK
<1>9. pick.base = {pair} => pair \in DOMAIN disputable_tx
  BY <1>3
<1>10. generated' = Append(generated, cmd)
  BY <1>2, <1>6 DEF Write
<1>11. Generates(cmd)
  BY <1>2, <1>3, <1>7, <1>8, <1>9, <1>10 DEF Generates
<1>12. GeneratorTypeOK'
  BY <1>2, <1>3, <1>7, <1>8, <1>10, AppendProperties DEF GeneratorTypeOK
<1>13. QED
  BY <1>7, <1>11, <1>12

LEMMA GenSettlementGenerates ==
  ASSUME GeneratorTypeOK, NEW type \in {"Resolve", "Chargeback"}, GenSettlement(type)
  PROVE  GeneratorTypeOK' /\ \E cmd \in Command : Generates(cmd)
<1>1. PICK pick \in PickDispute(open_disputes) :
        \E pair \in DeriveDispute(pick.base) :
          /\ open_disputes' = pick.rest
          /\ disputable_tx' \in Remembered(disputable_tx, pair, pick.base)
          /\ Write([type |-> type, client |-> pair[1], tx |-> pair[2]])
          /\ UNCHANGED next_tx
  BY DEF GenSettlement
<1>2. PICK pair \in DeriveDispute(pick.base) :
        /\ open_disputes' = pick.rest
        /\ disputable_tx' \in Remembered(disputable_tx, pair, pick.base)
        /\ Write([type |-> type, client |-> pair[1], tx |-> pair[2]])
        /\ UNCHANGED next_tx
  BY <1>1
<1>3. /\ pick.rest \in TargetBag /\ Within(pick.rest, open_disputes)
      /\ pick.base = {} \/ \E one \in DOMAIN open_disputes : pick.base = {one}
  BY Picked DEF GeneratorTypeOK
<1>4. pick.base \in SUBSET Target
  BY <1>3, BagFacts DEF GeneratorTypeOK
<1>5. pair \in Target
  BY <1>4, Derived
<1>6. PICK cmd : cmd = [type |-> type, client |-> pair[1], tx |-> pair[2]]
  OBVIOUS
<1>7. cmd \in Command /\ Concerns(cmd, {"Resolve", "Chargeback"}, pair)
  BY <1>5, <1>6 DEF Command, Claim, Concerns, Target
<1>8. /\ disputable_tx' \in TargetBag
      /\ \/ Within(disputable_tx', disputable_tx)
         \/ pick.base = {pair} /\ WithOneMore(disputable_tx', disputable_tx, pair)
  BY <1>2, <1>5, RememberedOne DEF GeneratorTypeOK
<1>9. pick.base = {pair} => pair \in DOMAIN open_disputes
  BY <1>3
<1>10. generated' = Append(generated, cmd)
  BY <1>2, <1>6 DEF Write
<1>11. Generates(cmd)
  BY <1>2, <1>3, <1>7, <1>8, <1>9, <1>10 DEF Generates
<1>12. GeneratorTypeOK'
  BY <1>2, <1>3, <1>7, <1>8, <1>10, AppendProperties DEF GeneratorTypeOK
<1>13. QED
  BY <1>7, <1>11, <1>12

LEMMA NextGenerates ==
  ASSUME GeneratorTypeOK, Next
  PROVE  GeneratorTypeOK' /\ \E cmd \in Command : Generates(cmd)
BY GenTxGenerates, GenDisputeGenerates, GenSettlementGenerates DEF Next

-----------------------------------------------------------------------------
(* The history. *)

(* The commands about a pair are those before, and the new one if it       *)
(* concerns the pair; it comes last.                                       *)
LEMMA AboutGrows ==
  ASSUME generated \in Seq(Command), NEW cmd \in Command,
         generated' = Append(generated, cmd), NEW types, NEW pair
  PROVE  LET last == Len(generated) + 1 IN
         /\ About(types, pair) \subseteq 1 .. Len(generated) /\ Len(generated) \in Nat
         /\ About(types, pair)' =
              About(types, pair) \cup (IF Concerns(cmd, types, pair) THEN {last} ELSE {})
         /\ Cardinality(About(types, pair)) \in Nat
         /\ Cardinality(About(types, pair)') =
              Cardinality(About(types, pair))
                + (IF Concerns(cmd, types, pair) THEN 1 ELSE 0)
<1> DEFINE last == Len(generated) + 1
<1>1. PICK seq : seq = generated'
  OBVIOUS
<1>2. /\ Len(generated) \in Nat /\ DOMAIN generated = 1 .. Len(generated)
      /\ seq \in Seq(Command) /\ DOMAIN seq = 1 .. last
      /\ seq[last] = cmd
      /\ \A i \in 1 .. Len(generated) : seq[i] = generated[i]
  BY <1>1, AppendProperties, LenProperties
<1>3. PICK before : before = About(types, pair)
  OBVIOUS
<1>4. PICK after : after = About(types, pair)'
  OBVIOUS
<1>5. /\ before = {i \in DOMAIN generated : Concerns(generated[i], types, pair)}
      /\ after = {i \in DOMAIN seq : Concerns(seq[i], types, pair)}
  BY <1>1, <1>3, <1>4 DEF About, Concerns
<1>6. /\ DOMAIN seq = DOMAIN generated \cup {last} /\ last \notin DOMAIN generated
  BY <1>2
<1> HIDE DEF last
<1>7. after = before \cup (IF Concerns(cmd, types, pair) THEN {last} ELSE {})
  <2>1. seq[last] = cmd /\ \A i \in DOMAIN generated : seq[i] = generated[i]
    BY <1>2 DEF last
  <2>2. CASE Concerns(cmd, types, pair)
    <3>1. after = before \cup {last}
      BY <1>5, <1>6, <2>1, <2>2
    <3>2. QED
      BY <2>2, <3>1
  <2>3. CASE ~Concerns(cmd, types, pair)
    <3>1. after = before
      BY <1>5, <1>6, <2>1, <2>3
    <3>2. QED
      BY <2>3, <3>1
  <2>4. QED
    BY <2>2, <2>3
<1>8. IsFiniteSet(before) /\ Cardinality(before) \in Nat /\ last \notin before
  <2>1. IsFiniteSet(1 .. Len(generated))
    BY <1>2, FS_Interval
  <2>2. before \subseteq 1 .. Len(generated)
    BY <1>2, <1>5
  <2>3. QED
    BY <1>6, <1>5, <2>1, <2>2, FS_Subset, FS_CardinalityType
<1>9. Cardinality(after) = Cardinality(before) + (IF Concerns(cmd, types, pair) THEN 1 ELSE 0)
  <2>1. Cardinality(before \cup {last}) = Cardinality(before) + 1
    BY <1>8, FS_AddElement
  <2>2. Cardinality(before \cup {}) = Cardinality(before) + 0
    <3>1. before \cup {} = before
      OBVIOUS
    <3>2. QED
      BY <1>8, <3>1
  <2>3. QED
    BY <1>7, <2>1, <2>2
<1>10. QED
  BY <1>2, <1>3, <1>4, <1>5, <1>7, <1>8, <1>9 DEF last

(* A list that grows by a pair only when a command concerns the pair holds *)
(* no pair more often than there are such commands.                        *)
LEMMA CopiesFollow ==
  ASSUME generated \in Seq(Command), NEW cmd \in Command, generated' = Append(generated, cmd),
         NEW types, NEW list \in TargetBag, NEW new \in TargetBag,
         \A pair \in DOMAIN list : list[pair] <= Cardinality(About(types, pair)),
         \/ Within(new, list)
         \/ \E one \in Target : Concerns(cmd, types, one) /\ WithOneMore(new, list, one)
  PROVE  \A pair \in DOMAIN new : new[pair] <= Cardinality(About(types, pair)')
<1> SUFFICES ASSUME NEW pair \in DOMAIN new
             PROVE  new[pair] <= Cardinality(About(types, pair)')
  OBVIOUS
<1>1. PICK before : before = Cardinality(About(types, pair))
  OBVIOUS
<1>2. PICK after : after = Cardinality(About(types, pair)')
  OBVIOUS
<1>3. before \in Nat /\ after = before + (IF Concerns(cmd, types, pair) THEN 1 ELSE 0)
  BY <1>1, <1>2, AboutGrows
<1>4. new[pair] \in Nat /\ \A one \in DOMAIN list : list[one] \in Nat
  BY BagFacts
<1>5. pair \in DOMAIN list => list[pair] <= before
  BY <1>1
<1>6. CASE pair \in DOMAIN list /\ new[pair] <= list[pair]
  BY <1>2, <1>3, <1>4, <1>5, <1>6
<1>7. CASE Concerns(cmd, types, pair) /\ WithOneMore(new, list, pair)
  <2>1. new[pair] = Copies(list, pair) + 1
    BY <1>7 DEF WithOneMore
  <2>2. Copies(list, pair) \in Nat /\ Copies(list, pair) <= before
    BY <1>3, <1>4, <1>5 DEF Copies
  <2>3. after = before + 1
    BY <1>3, <1>7
  <2>4. QED
    BY <1>2, <1>3, <2>1, <2>2, <2>3
<1>8. QED
  BY <1>6, <1>7 DEF Within, WithOneMore

(* The lists follow the history, command by command. *)
LEMMA StepFollowsHistory ==
  ASSUME GeneratorTypeOK, ListsFollowHistory, Next
  PROVE  ListsFollowHistory'
<1>1. GeneratorTypeOK' /\ \E cmd \in Command : Generates(cmd)
  BY NextGenerates
<1>2. PICK cmd \in Command : Generates(cmd)
  BY <1>1
<1>3. generated \in Seq(Command) /\ generated' = Append(generated, cmd)
  BY <1>2 DEF GeneratorTypeOK, Generates
<1>4. PICK open \in TargetBag : open = open_disputes'
  BY <1>1 DEF GeneratorTypeOK
<1>5. PICK disputable \in TargetBag : disputable = disputable_tx'
  BY <1>1 DEF GeneratorTypeOK
<1>6. DOMAIN open_disputes \subseteq Target /\ DOMAIN disputable_tx \subseteq Target
  BY BagFacts DEF GeneratorTypeOK
<1>7. \A pair \in DOMAIN open : open[pair] <= Cardinality(About({"Dispute"}, pair)')
  <2>1. PICK list \in TargetBag : list = open_disputes
    BY DEF GeneratorTypeOK
  <2>2. \A pair \in DOMAIN list : list[pair] <= Cardinality(About({"Dispute"}, pair))
    BY <2>1 DEF ListsFollowHistory, BagToSet
  <2>3. \/ Within(open, list)
        \/ \E one \in Target : Concerns(cmd, {"Dispute"}, one) /\ WithOneMore(open, list, one)
    BY <1>2, <1>4, <1>6, <2>1 DEF Generates
  <2>4. QED
    BY <1>3, <2>2, <2>3, CopiesFollow
<1>8. \A pair \in DOMAIN disputable :
        disputable[pair] <=
          Cardinality(About({"Deposit", "Withdrawal", "Resolve", "Chargeback"}, pair)')
  <2>1. PICK list \in TargetBag : list = disputable_tx
    BY DEF GeneratorTypeOK
  <2>2. \A pair \in DOMAIN list :
          list[pair] <= Cardinality(About({"Deposit", "Withdrawal", "Resolve", "Chargeback"}, pair))
    BY <2>1 DEF ListsFollowHistory, BagToSet
  <2>3. \/ Within(disputable, list)
        \/ \E one \in Target :
             /\ Concerns(cmd, {"Deposit", "Withdrawal", "Resolve", "Chargeback"}, one)
             /\ WithOneMore(disputable, list, one)
    <3>1. \A one : Concerns(cmd, {"Deposit", "Withdrawal"}, one)
                     \/ Concerns(cmd, {"Resolve", "Chargeback"}, one)
                   => Concerns(cmd, {"Deposit", "Withdrawal", "Resolve", "Chargeback"}, one)
      BY DEF Concerns
    <3>2. QED
      BY <1>2, <1>5, <1>6, <2>1, <3>1 DEF Generates
  <2>4. QED
    BY <1>3, <2>2, <2>3, CopiesFollow
<1>9. ASSUME NEW types, NEW pair
      PROVE  /\ About(types, pair) \subseteq About(types, pair)'
             /\ Concerns(cmd, types, pair) => Len(generated) + 1 \in About(types, pair)'
             /\ \A i \in About(types, pair) : i < Len(generated) + 1
  <2>1. PICK before : before = About(types, pair)
    OBVIOUS
  <2>2. PICK last : last = Len(generated) + 1
    OBVIOUS
  <2>3. /\ before \subseteq 1 .. Len(generated) /\ Len(generated) \in Nat
        /\ About(types, pair)' = before \cup (IF Concerns(cmd, types, pair) THEN {last} ELSE {})
    BY <1>3, <2>1, <2>2, AboutGrows
  <2>4. QED
    BY <2>1, <2>2, <2>3
<1>10. ASSUME NEW pair \in DOMAIN open
       PROVE  \E i \in About({"Deposit", "Withdrawal"}, pair)', j \in About({"Dispute"}, pair)' :
                i < j
  <2>1. CASE pair \in DOMAIN open_disputes
    BY <1>9, <2>1 DEF ListsFollowHistory, BagToSet
  <2>2. CASE pair \in DOMAIN disputable_tx /\ Concerns(cmd, {"Dispute"}, pair)
    <3>1. PICK i \in About({"Deposit", "Withdrawal"}, pair) : TRUE
      BY <2>2 DEF ListsFollowHistory, BagToSet
    <3>2. QED
      BY <1>9, <2>2, <3>1
  <2>3. QED
    BY <1>2, <1>4, <2>1, <2>2 DEF Generates, Within, WithOneMore
<1>11. ASSUME NEW pair \in DOMAIN disputable
       PROVE  About({"Deposit", "Withdrawal"}, pair)' # {}
  <2>1. CASE pair \in DOMAIN open_disputes \cup DOMAIN disputable_tx
    BY <1>9, <2>1 DEF ListsFollowHistory, BagToSet
  <2>2. CASE Concerns(cmd, {"Deposit", "Withdrawal"}, pair)
    BY <1>9, <2>2
  <2>3. QED
    BY <1>2, <1>5, <2>1, <2>2 DEF Generates, Within, WithOneMore
<1>12. QED
  BY <1>4, <1>5, <1>7, <1>8, <1>10, <1>11 DEF ListsFollowHistory, BagToSet

(* The lists from which claims are drawn hold what the history of the      *)
(* sample says, whatever was drawn, replaced, kept or put back.            *)
THEOREM ClaimsFollowHistory == Spec => []ListsFollowHistory
<1>1. Init => GeneratorTypeOK /\ ListsFollowHistory
  <2> SUFFICES ASSUME Init
               PROVE  GeneratorTypeOK /\ ListsFollowHistory
    OBVIOUS
  <2>1. EmptyBag \in TargetBag /\ DOMAIN EmptyBag = {}
    BY DEF EmptyBag, SetToBag, TargetBag
  <2>2. QED
    BY <2>1, EmptySeq DEF Init, GeneratorTypeOK, ListsFollowHistory, BagToSet
<1>2. GeneratorTypeOK /\ ListsFollowHistory /\ [Next]_vars =>
        GeneratorTypeOK' /\ ListsFollowHistory'
  <2>1. ASSUME GeneratorTypeOK, ListsFollowHistory, UNCHANGED vars
        PROVE  GeneratorTypeOK' /\ ListsFollowHistory'
    <3>1. /\ next_tx' = next_tx /\ disputable_tx' = disputable_tx
          /\ open_disputes' = open_disputes /\ generated' = generated
      BY <2>1 DEF vars
    <3>2. \A types, pair : About(types, pair)' = About(types, pair)
      BY <3>1 DEF About
    <3>3. GeneratorTypeOK'
      BY <2>1, <3>1 DEF GeneratorTypeOK
    <3>4. ListsFollowHistory'
      BY <2>1, <3>1, <3>2 DEF ListsFollowHistory
    <3>5. QED
      BY <3>3, <3>4
  <2>2. QED
    BY <2>1, NextGenerates, StepFollowsHistory
<1>3. QED
  BY <1>1, <1>2, PTL DEF Spec
=============================================================================
