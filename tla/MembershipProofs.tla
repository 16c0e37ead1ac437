-------------------------- MODULE MembershipProofs --------------------------
(***************************************************************************)
(* Proofs about who belongs to an organization and may speak for it, for   *)
(* any number of members, teams, bindings, invitations and connections:    *)
(*                                                                         *)
(*   - the directory and the bindings open again, only owners touch who    *)
(*     manages, and enrollment keeps its abstract promise (Enrollment);    *)
(*   - nobody belongs without an accepted invitation, its outcome is       *)
(*     final, and undoing a failed one spares members (Invitations);       *)
(*   - a socket is usable only while its binding authorizes it, and holds  *)
(*     its tenant's runtime as long as it needs it (ProducerSockets).      *)
(*                                                                         *)
(* The invitations and the sockets are two compositions over Enrollment,   *)
(* whose lemmas both cite.                                                 *)
(***************************************************************************)
EXTENDS InvitationsProperties, EnrollmentProperties, ProducerSocketsProperties,
        FiniteSetTheorems, TLAPS

---------------------------------------------------------------------------
(* Shapes *)

LEMMA BlankType == \A phase \in Phases : Blank(phase) \in Binding
BY DEF Blank, Slot, Binding

LEMMA WithMemberType ==
    ASSUME NEW d \in Directory, NEW m \in Members, NEW value \in Member
    PROVE  WithMember(d, m, value) \in Directory
<1> DEFINE seats == [d.members EXCEPT ![m] = value]
           rest == [t \in Teams |-> IF t \in Formed(d) /\ value.state = "removed"
                                    THEN d.teams[t] \ {m} ELSE d.teams[t]]
<1>1. seats \in [Members -> Member \cup {Null}]
    BY DEF Directory
<1>2. rest \in [Teams -> (SUBSET Members) \cup {Null}]
    <2>1. ASSUME NEW t \in Formed(d) PROVE d.teams[t] \in SUBSET Members
        BY <2>1 DEF Formed, Directory
    <2>2. \A t \in Teams : d.teams[t] \in (SUBSET Members) \cup {Null}
        BY DEF Directory
    <2> QED BY <2>1, <2>2
<1>3. WithMember(d, m, value) = [d EXCEPT !.members = seats, !.teams = rest]
    BY DEF WithMember
<1> HIDE DEF seats, rest
<1> QED BY <1>1, <1>2, <1>3 DEF Directory

LEMMA WithTeamType ==
    ASSUME NEW d \in Directory, NEW t \in Teams, NEW listed \in (SUBSET Members) \cup {Null}
    PROVE  WithTeam(d, t, listed) \in Directory
BY DEF WithTeam, Directory

LEMMA CommitType ==
    ASSUME NEW a \in Members, NEW candidate \in Directory, candidate.revision = directory.revision,
           directory \in Directory, CommitDirectory(a, candidate)
    PROVE  directory' \in Directory /\ actor' \in Members
BY EnrollmentAssumption DEF CommitDirectory, Revised, Directory

(* What a directory command commits is a directory, and it parses.           *)
LEMMA CommandStep ==
    ASSUME TypeOK, DirectoryNext
    PROVE  /\ directory' \in Directory /\ actor' \in Members
           /\ Parses(directory')
           /\ UNCHANGED <<bindings, now>>
<1>1. PICK a \in Members :
        \/ \E m \in Members, value \in Member : PutMember(a, m, value)
        \/ \E t \in Teams, listed \in SUBSET Members : PutTeam(a, t, listed)
        \/ \E t \in Teams : RemoveTeam(a, t)
    BY DEF DirectoryNext
<1>2. PICK candidate \in Directory :
        candidate.revision = directory.revision /\ CommitDirectory(a, candidate)
    <2>1. CASE \E m \in Members, value \in Member : PutMember(a, m, value)
        <3>1. PICK m \in Members, value \in Member : PutMember(a, m, value)
            BY <2>1
        <3>2. WithMember(directory, m, value).revision = directory.revision
            BY DEF TypeOK, Directory, WithMember
        <3> QED BY <3>1, <3>2, WithMemberType DEF PutMember, TypeOK
    <2>2. CASE \E t \in Teams, listed \in SUBSET Members : PutTeam(a, t, listed)
        <3>1. PICK t \in Teams, listed \in SUBSET Members : PutTeam(a, t, listed)
            BY <2>2
        <3>2. WithTeam(directory, t, listed).revision = directory.revision
            BY DEF TypeOK, Directory, WithTeam
        <3> QED BY <3>1, <3>2, WithTeamType DEF PutTeam, TypeOK
    <2>3. CASE \E t \in Teams : RemoveTeam(a, t)
        <3>1. PICK t \in Teams : RemoveTeam(a, t)
            BY <2>3
        <3>2. WithTeam(directory, t, Null).revision = directory.revision
            BY DEF TypeOK, Directory, WithTeam
        <3>3. WithTeam(directory, t, Null) \in Directory
            BY WithTeamType DEF TypeOK
        <3> QED BY <3>1, <3>2, <3>3 DEF RemoveTeam
    <2> QED BY <1>1, <2>1, <2>2, <2>3
<1>3. directory' \in Directory /\ actor' \in Members
    BY <1>2, CommitType DEF TypeOK
<1> QED BY <1>2, <1>3 DEF CommitDirectory

---------------------------------------------------------------------------
(* Bindings *)

(* A record as the next opening accepts it, blank slots aside.               *)
SlotOpens(r) == r.phase \notin {"unused", "pruned"} => BindingParses(r)

EnrollmentInv ==
    /\ TypeOK
    /\ DirectoryReopens
    /\ BindingsReopen

LEMMA StoredFinite == IsFiniteSet(Stored)
BY EnrollmentAssumption, FS_Subset DEF Stored

LEMMA PrunedFacts ==
    ASSUME TypeOK, BindingsReopen, NEW kept \in Pruned(now)
    PROVE  /\ kept \in [Bindings -> Binding]
           /\ \A b \in Bindings : kept[b] = bindings[b] \/ kept[b] = Blank("pruned")
           /\ \A b \in Bindings : bindings[b].phase = "unused" => kept[b] = bindings[b]
           /\ {c \in Bindings : kept[c].phase \notin {"unused", "pruned"}} \subseteq Stored
<1>1. CASE kept = bindings
    BY <1>1 DEF Stored, TypeOK
<1>2. CASE \E b \in Prunable(now) : kept = [bindings EXCEPT ![b] = Blank("pruned")]
    <2>1. PICK b \in Prunable(now) : kept = [bindings EXCEPT ![b] = Blank("pruned")]
        BY <1>2
    <2>2. b \in Bindings /\ bindings[b].phase \in {"pending", "approved", "rejected"}
        BY DEF Prunable, Stored
    <2>3. kept \in [Bindings -> Binding]
        BY <2>1, <2>2, BlankType DEF TypeOK, Phases
    <2>4. \A c \in Bindings : kept[c] = IF c = b THEN Blank("pruned") ELSE bindings[c]
        BY <2>1, <2>2 DEF TypeOK
    <2>5. Blank("pruned").phase = "pruned"
        BY DEF Blank, Slot
    <2> QED BY <2>2, <2>3, <2>4, <2>5 DEF Stored
<1> QED BY <1>1, <1>2 DEF Pruned

(* Every step keeps each record one the parser takes, and their number.      *)
LEMMA BindingStep ==
    ASSUME EnrollmentInv, BindingNext
    PROVE  TypeOK' /\ DirectoryReopens' /\ BindingsReopen'
<1> USE EnrollmentAssumption
<1>1. ASSUME NEW b \in Bindings, NEW r \in Binding, r.phase \in {"approved", "rejected", "confirmed", "revoked"},
             bindings[b].phase \in {"pending", "approved", "confirmed"}, BindingParses(bindings[b]) => BindingParses(r),
             bindings' = [bindings EXCEPT ![b] = r], UNCHANGED <<directory, now, actor>>
      PROVE  TypeOK' /\ DirectoryReopens' /\ BindingsReopen'
    <2>1. TypeOK'
        BY <1>1 DEF EnrollmentInv, TypeOK
    <2>2. Stored' = Stored /\ b \in Stored
        BY <1>1 DEF Stored, EnrollmentInv, TypeOK
    <2>3. \A c \in Stored : BindingParses(bindings[c])
        BY DEF EnrollmentInv, BindingsReopen
    <2>4. \A c \in Stored : BindingParses(bindings'[c])
        <3> TAKE c \in Stored
        <3>1. CASE c = b
            <4>1. bindings'[c] = r /\ BindingParses(r)
                BY <1>1, <2>2, <2>3, <3>1 DEF EnrollmentInv, TypeOK
            <4> QED BY <4>1
        <3>2. CASE c # b
            <4>1. bindings'[c] = bindings[c] /\ BindingParses(bindings[c])
                BY <1>1, <2>3, <3>2 DEF EnrollmentInv, TypeOK, Stored
            <4> QED BY <4>1
        <3> QED BY <3>1, <3>2
    <2>5. BindingsReopen'
        BY <2>2, <2>4 DEF EnrollmentInv, BindingsReopen
    <2> QED BY <1>1, <2>1, <2>5 DEF EnrollmentInv, DirectoryReopens
<1>2. ASSUME NEW b \in Bindings, StartBinding(b)
      PROVE  TypeOK' /\ DirectoryReopens' /\ BindingsReopen'
    <2> DEFINE left(kept) == {c \in Bindings : kept[c].phase \notin {"unused", "pruned"}}
               offer == Slot("pending", now, now + Ttl)
    <2>1. PICK kept \in Pruned(now) :
            Cardinality(left(kept)) < MaxBindings /\ bindings' = [kept EXCEPT ![b] = offer]
        BY <1>2 DEF StartBinding
    <2>2. UNCHANGED <<directory, now, actor>> /\ bindings[b].phase = "unused"
        BY <1>2 DEF StartBinding
    <2>3. now \in Nat /\ Ttl \in Nat \ {0}
        BY DEF EnrollmentInv, TypeOK, Time
    <2>4. offer \in Binding /\ offer.phase = "pending" /\ BindingParses(offer)
        BY <2>3 DEF Slot, Binding, Phases, BindingParses
    <2> HIDE DEF offer
    <2>5. /\ kept \in [Bindings -> Binding]
          /\ \A c \in Bindings : kept[c] = bindings[c] \/ kept[c] = Blank("pruned")
          /\ left(kept) \subseteq Stored
        BY PrunedFacts DEF EnrollmentInv
    <2>6. TypeOK'
        BY <2>1, <2>2, <2>4, <2>5 DEF EnrollmentInv, TypeOK
    <2>7. Stored' = left(kept) \cup {b}
        BY <2>1, <2>4, <2>5 DEF Stored
    <2>8. IsFiniteSet(left(kept)) /\ Cardinality(left(kept)) \in Nat
        BY <2>5, StoredFinite, FS_Subset, FS_CardinalityType
    <2>9. Cardinality(Stored') <= MaxBindings
        <3> HIDE DEF left
        <3>1. Cardinality(left(kept) \cup {b}) =
                IF b \in left(kept) THEN Cardinality(left(kept)) ELSE Cardinality(left(kept)) + 1
            BY <2>8, FS_AddElement
        <3> QED BY <2>1, <2>7, <2>8, <3>1
    <2>10. \A c \in Stored' : BindingParses(bindings'[c])
        <3> TAKE c \in Stored'
        <3>1. CASE c = b
            <4>1. bindings'[c] = offer
                BY <2>1, <2>5, <3>1
            <4> QED BY <2>4, <4>1
        <3>2. CASE c # b
            <4>1. c \in left(kept) /\ c \in Stored
                BY <2>5, <2>7, <3>2
            <4>2. bindings'[c] = kept[c] /\ kept[c].phase # "pruned"
                BY <2>1, <2>5, <3>2, <4>1
            <4>3. Blank("pruned").phase = "pruned"
                BY DEF Blank, Slot
            <4>4. bindings'[c] = bindings[c]
                BY <2>5, <4>1, <4>2, <4>3 DEF Stored
            <4>5. BindingParses(bindings[c])
                BY <4>1 DEF EnrollmentInv, BindingsReopen
            <4> QED BY <4>4, <4>5
        <3> QED BY <3>1, <3>2
    <2>11. BindingsReopen'
        BY <2>9, <2>10 DEF BindingsReopen
    <2> QED BY <2>2, <2>6, <2>11 DEF EnrollmentInv, DirectoryReopens
<1>3. CASE StartOnlyPrunes
    <2>1. bindings' \in Pruned(now) /\ UNCHANGED <<directory, now, actor>>
        BY <1>3 DEF StartOnlyPrunes
    <2>2. /\ bindings' \in [Bindings -> Binding]
          /\ \A c \in Bindings : bindings'[c] = bindings[c] \/ bindings'[c] = Blank("pruned")
          /\ Stored' \subseteq Stored
        BY <2>1, PrunedFacts DEF EnrollmentInv, Stored
    <2>3. Blank("pruned").phase = "pruned"
        BY DEF Blank, Slot
    <2>4. IsFiniteSet(Stored) /\ Cardinality(Stored') <= Cardinality(Stored)
        BY <2>2, StoredFinite, FS_Subset
    <2>5. Cardinality(Stored) \in Nat /\ Cardinality(Stored') \in Nat
        BY <2>2, StoredFinite, FS_Subset, FS_CardinalityType
    <2>6. Cardinality(Stored') <= MaxBindings
        BY <2>4, <2>5 DEF EnrollmentInv, BindingsReopen
    <2>7. \A c \in Stored' : bindings'[c] = bindings[c]
        BY <2>2, <2>3 DEF Stored
    <2>8. \A c \in Stored' : BindingParses(bindings'[c])
        <3> TAKE c \in Stored'
        <3>1. bindings'[c] = bindings[c]
            BY <2>7
        <3>2. BindingParses(bindings[c])
            BY <2>2 DEF EnrollmentInv, BindingsReopen
        <3> QED BY <3>1, <3>2
    <2> QED BY <2>1, <2>2, <2>6, <2>8 DEF EnrollmentInv, TypeOK, DirectoryReopens, BindingsReopen
<1>4. ASSUME NEW b \in Bindings, NEW m \in Members, ApproveBinding(b, m)
      PROVE  TypeOK' /\ DirectoryReopens' /\ BindingsReopen'
    <2> DEFINE r == [bindings[b] EXCEPT !.phase = "approved", !.member = m, !.approvedAt = now]
    <2>1. bindings[b] \in Binding /\ now \in Nat
        BY DEF EnrollmentInv, TypeOK, Time
    <2>2. r \in Binding /\ r.phase = "approved"
        BY <2>1 DEF Binding, Phases
    <2>3. bindings' = [bindings EXCEPT ![b] = r] /\ UNCHANGED <<directory, now, actor>>
          /\ bindings[b].phase = "pending" /\ InWindow(bindings[b], now)
        BY <1>4 DEF ApproveBinding, MemberActs
    <2>4. BindingParses(bindings[b]) => BindingParses(r)
        BY <2>1, <2>3 DEF Binding, BindingParses, InWindow
    <2> HIDE DEF r
    <2> QED BY <1>1, <2>2, <2>3, <2>4
<1>5. ASSUME NEW b \in Bindings, NEW m \in Members, RejectBinding(b, m)
      PROVE  TypeOK' /\ DirectoryReopens' /\ BindingsReopen'
    <2> DEFINE r == [bindings[b] EXCEPT !.phase = "rejected", !.member = m, !.endedAt = now]
    <2>1. bindings[b] \in Binding /\ now \in Nat
        BY DEF EnrollmentInv, TypeOK, Time
    <2>2. r \in Binding /\ r.phase = "rejected"
        BY <2>1 DEF Binding, Phases
    <2>3. bindings' = [bindings EXCEPT ![b] = r] /\ UNCHANGED <<directory, now, actor>>
          /\ bindings[b].phase = "pending" /\ InWindow(bindings[b], now)
        BY <1>5 DEF RejectBinding, MemberActs
    <2>4. BindingParses(bindings[b]) => BindingParses(r)
        BY <2>1, <2>3 DEF Binding, BindingParses, InWindow
    <2> HIDE DEF r
    <2> QED BY <1>1, <2>2, <2>3, <2>4
<1>6. ASSUME NEW b \in Bindings, ConfirmBinding(b)
      PROVE  TypeOK' /\ DirectoryReopens' /\ BindingsReopen'
    <2> DEFINE r == [bindings[b] EXCEPT !.phase = "confirmed", !.confirmedAt = now]
    <2>1. bindings[b] \in Binding /\ now \in Nat
        BY DEF EnrollmentInv, TypeOK, Time
    <2>2. r \in Binding /\ r.phase = "confirmed"
        BY <2>1 DEF Binding, Phases
    <2>3. bindings' = [bindings EXCEPT ![b] = r] /\ UNCHANGED <<directory, now, actor>>
          /\ bindings[b].phase = "approved" /\ Confirms(bindings[b])
        BY <1>6 DEF ConfirmBinding, MemberActs
    <2>4. BindingParses(bindings[b]) => BindingParses(r)
        BY <2>1, <2>3 DEF Binding, BindingParses, InWindow, Confirms
    <2> HIDE DEF r
    <2> QED BY <1>1, <2>2, <2>3, <2>4
<1>7. ASSUME NEW b \in Bindings, NEW m \in Members, RevokeBinding(b, m)
      PROVE  TypeOK' /\ DirectoryReopens' /\ BindingsReopen'
    <2> DEFINE r == [bindings[b] EXCEPT !.phase = "revoked", !.endedAt = now]
    <2>1. bindings[b] \in Binding /\ now \in Nat
        BY DEF EnrollmentInv, TypeOK, Time
    <2>2. r \in Binding /\ r.phase = "revoked"
        BY <2>1 DEF Binding, Phases
    <2>3. bindings' = [bindings EXCEPT ![b] = r] /\ UNCHANGED <<directory, now, actor>>
          /\ bindings[b].phase = "confirmed" /\ now >= bindings[b].confirmedAt
        BY <1>7 DEF RevokeBinding, MemberActs
    <2>4. BindingParses(bindings[b]) => BindingParses(r)
        BY <2>1, <2>3 DEF Binding, BindingParses
    <2> HIDE DEF r
    <2> QED BY <1>1, <2>2, <2>3, <2>4
<1>8. CASE SetClock
    <2>1. TypeOK'
        BY <1>8 DEF SetClock, EnrollmentInv, TypeOK
    <2>2. Stored' = Stored /\ bindings' = bindings /\ directory' = directory
        BY <1>8 DEF SetClock, Stored
    <2> QED BY <2>1, <2>2 DEF EnrollmentInv, DirectoryReopens, BindingsReopen
<1> QED BY <1>2, <1>3, <1>4, <1>5, <1>6, <1>7, <1>8 DEF BindingNext

---------------------------------------------------------------------------
LEMMA InitInv == EnrollmentInit => EnrollmentInv
<1> SUFFICES ASSUME EnrollmentInit PROVE EnrollmentInv
    OBVIOUS
<1> USE EnrollmentAssumption
<1> DEFINE seats == [m \in Members |-> IF m = Bootstrap THEN [role |-> "owner", state |-> "active"] ELSE Null]
           none == [t \in Teams |-> Null]
<1>0. /\ directory.members = seats /\ directory.teams = none
      /\ directory = [revision |-> 0, members |-> seats, teams |-> none]
    BY DEF EnrollmentInit
<1>a. seats \in [Members -> Member \cup {Null}] /\ [role |-> "owner", state |-> "active"] \in Member
    BY DEF Member, Roles, Memberships
<1>b. none \in [Teams -> (SUBSET Members) \cup {Null}]
    OBVIOUS
<1>1. directory \in Directory
    <2> HIDE DEF seats, none
    <2> QED BY <1>0, <1>a, <1>b DEF Directory
<1>2. bindings \in [Bindings -> Binding]
    BY BlankType DEF EnrollmentInit, Phases
<1>3. TypeOK
    BY <1>1, <1>2 DEF EnrollmentInit, TypeOK, Time
<1>4. Parses(directory)
    <2>1. /\ Known(directory) = {Bootstrap} /\ Formed(directory) = {}
          /\ Bootstrap \in Active(directory) /\ HasRole(directory, Bootstrap, "owner")
        BY <1>0, <1>a, NullAssumption DEF Known, Formed, Active, HasState, HasRole
    <2>2. Cardinality({Bootstrap}) = 1 /\ Cardinality({}) = 0
        BY FS_Singleton, FS_EmptySet
    <2> QED BY <2>1, <2>2 DEF Parses
<1>5. Stored = {}
    BY DEF EnrollmentInit, Stored, Blank, Slot
<1>6. BindingsReopen
    BY <1>5, FS_EmptySet DEF BindingsReopen
<1> QED BY <1>3, <1>4, <1>6 DEF EnrollmentInv, DirectoryReopens

LEMMA StepInv == EnrollmentInv /\ [EnrollmentNext]_enrollmentVars => EnrollmentInv'
<1> SUFFICES ASSUME EnrollmentInv, [EnrollmentNext]_enrollmentVars PROVE EnrollmentInv'
    OBVIOUS
<1>1. CASE DirectoryNext
    <2>1. directory' \in Directory /\ actor' \in Members /\ Parses(directory') /\ UNCHANGED <<bindings, now>>
        BY <1>1, CommandStep DEF EnrollmentInv
    <2>2. TypeOK'
        BY <2>1 DEF EnrollmentInv, TypeOK
    <2>3. BindingsReopen'
        BY <2>1 DEF EnrollmentInv, BindingsReopen, Stored
    <2> QED BY <2>1, <2>2, <2>3 DEF EnrollmentInv, DirectoryReopens
<1>2. CASE BindingNext
    BY <1>2, BindingStep DEF EnrollmentInv
<1>3. CASE UNCHANGED enrollmentVars
    BY <1>3 DEF enrollmentVars, EnrollmentInv, TypeOK, DirectoryReopens, BindingsReopen, Stored
<1> QED BY <1>1, <1>2, <1>3 DEF EnrollmentNext

(* For every organization, every limit and every move of the clock, the      *)
(* directory and the bindings keep their invariant.                          *)
THEOREM EnrollmentInvariant == Spec => []EnrollmentInv
<1>1. EnrollmentInit => EnrollmentInv
    BY InitInv
<1>2. EnrollmentInv /\ [EnrollmentNext]_enrollmentVars => EnrollmentInv'
    BY StepInv
<1> QED BY <1>1, <1>2, PTL DEF Spec

(* The stored directory always parses again, and no clock makes a binding    *)
(* that the next opening refuses.                                            *)
THEOREM EnrollmentAlwaysOpens == Spec => []EnrollmentReopens
<1>1. EnrollmentInv => EnrollmentReopens
    BY DEF EnrollmentInv, EnrollmentReopens
<1> QED BY <1>1, EnrollmentInvariant, PTL

---------------------------------------------------------------------------
(* Removal *)

LEMMA RemovalParses ==
    ASSUME NEW d \in Directory, Parses(d), NEW a \in Members, NEW m \in Members,
           a \in Active(d), HasRole(d, a, "owner"), m \in Known(d), a # m
    PROVE  Parses(WithMember(d, m, [d.members[m] EXCEPT !.state = "removed"]))
<1> DEFINE value == [d.members[m] EXCEPT !.state = "removed"]
           next == WithMember(d, m, value)
<1>1. value \in Member /\ value.state = "removed"
    <2>1. d.members[m] \in Member
        BY DEF Known, Directory
    <2> QED BY <2>1 DEF Member, Memberships
<1> HIDE DEF value
<1>2. /\ next.members = [d.members EXCEPT ![m] = value]
      /\ next.teams = [t \in Teams |-> IF t \in Formed(d) THEN d.teams[t] \ {m} ELSE d.teams[t]]
    BY <1>1 DEF WithMember, Directory
<1>3. next \in Directory
    BY <1>1, WithMemberType
<1> HIDE DEF next
<1>4. \A o \in Members : next.members[o] = IF o = m THEN value ELSE d.members[o]
    BY <1>2 DEF Directory
<1>5. value # Null
    BY <1>1, NullAssumption
<1>6. Known(next) = Known(d)
    BY <1>4, <1>5 DEF Known
<1>7. a \in Active(next) /\ HasRole(next, a, "owner")
    BY <1>4, <1>6 DEF Active, HasState, HasRole
<1>8. Formed(next) = Formed(d)
    <2>1. \A t \in Formed(d) : d.teams[t] \in SUBSET Members
        BY DEF Formed, Directory
    <2>2. \A t \in Formed(d) : next.teams[t] \in SUBSET Members /\ next.teams[t] # Null
        BY <1>2, <2>1, NullAssumption DEF Formed
    <2> QED BY <1>2, <2>2 DEF Formed
<1>9. ASSUME NEW t \in Formed(next)
      PROVE  /\ Cardinality(next.teams[t]) <= MaxTeamMembers
             /\ \A o \in next.teams[t] : o \in Known(next) /\ ~HasState(next, o, "removed")
    <2>1. t \in Formed(d) /\ t \in Teams /\ d.teams[t] \in SUBSET Members
        BY <1>8 DEF Formed, Directory
    <2>2. next.teams[t] = d.teams[t] \ {m}
        BY <1>2, <2>1
    <2>3. /\ Cardinality(d.teams[t]) <= MaxTeamMembers
          /\ \A o \in d.teams[t] : o \in Known(d) /\ ~HasState(d, o, "removed")
        BY <2>1 DEF Parses
    <2>4. \A o \in next.teams[t] : o \in Known(next) /\ ~HasState(next, o, "removed")
        BY <1>4, <1>6, <2>1, <2>2, <2>3 DEF HasState
    <2>5. IsFiniteSet(d.teams[t])
        BY <2>1, EnrollmentAssumption, FS_Subset
    <2>6. Cardinality(d.teams[t] \ {m}) <= Cardinality(d.teams[t])
        BY <2>5, FS_Subset
    <2>7. Cardinality(d.teams[t] \ {m}) \in Nat /\ Cardinality(d.teams[t]) \in Nat
        BY <2>5, FS_Subset, FS_CardinalityType
    <2>8. MaxTeamMembers \in Nat
        BY EnrollmentAssumption
    <2>9. Cardinality(next.teams[t]) <= MaxTeamMembers
        BY <2>2, <2>3, <2>6, <2>7, <2>8
    <2> QED BY <2>4, <2>9
<1>10. Parses(next)
    BY <1>6, <1>7, <1>8, <1>9 DEF Parses
<1> QED BY <1>10 DEF next, value

(* An active owner can always remove any other member who is still there.    *)
THEOREM RemovalAlwaysOpen == Spec => []RemovalIsAlwaysOpen
<1>1. EnrollmentInv => RemovalIsAlwaysOpen
    BY RemovalParses DEF EnrollmentInv, TypeOK, DirectoryReopens, RemovalIsAlwaysOpen, Active, Known
<1> QED BY <1>1, EnrollmentInvariant, PTL

---------------------------------------------------------------------------
(* Who touches managers *)

(* No command of an administrator changes an owner or an administrator.      *)
THEOREM OwnersAloneTouchManagers == Spec => OnlyOwnersTouchManagers
<1> DEFINE Guarded == \A m \in Members :
                directory'.members[m] # directory.members[m]
                /\ (\E d \in {directory, directory'} :
                        HasRole(d, m, "owner") \/ HasRole(d, m, "admin"))
                => HasRole(directory, actor', "owner")
<1>1. ASSUME EnrollmentInv, [EnrollmentNext]_enrollmentVars PROVE [Guarded]_enrollmentVars
    <2> SUFFICES ASSUME NEW m \in Members, EnrollmentNext,
                        directory'.members[m] # directory.members[m],
                        \E d \in {directory, directory'} : HasRole(d, m, "owner") \/ HasRole(d, m, "admin")
                 PROVE  HasRole(directory, actor', "owner")
        BY <1>1
    <2>1. CASE BindingNext
        <3>1. UNCHANGED directory
            BY <2>1 DEF BindingNext, StartBinding, StartOnlyPrunes, ConfirmBinding, ApproveBinding,
                        RejectBinding, RevokeBinding, MemberActs, SetClock
        <3> QED BY <3>1
    <2>2. CASE DirectoryNext
        <3>1. PICK a \in Members :
                \/ \E o \in Members, value \in Member : PutMember(a, o, value)
                \/ \E t \in Teams, listed \in SUBSET Members : PutTeam(a, t, listed)
                \/ \E t \in Teams : RemoveTeam(a, t)
            BY <2>2 DEF DirectoryNext
        <3>2. ASSUME NEW t \in Teams, NEW listed, CommitDirectory(a, WithTeam(directory, t, listed))
              PROVE  FALSE
            <4>1. directory'.members = directory.members
                BY <3>2, <1>1 DEF CommitDirectory, Revised, WithTeam, EnrollmentInv, TypeOK, Directory
            <4> QED BY <4>1
        <3>3. ASSUME NEW o \in Members, NEW value \in Member, PutMember(a, o, value)
              PROVE  HasRole(directory, a, "owner") /\ actor' = a
            <4>1. actor' = a /\ Ranks(directory, a, o, value)
                BY <3>3 DEF PutMember, CommitDirectory
            <4>2. directory'.members = [directory.members EXCEPT ![o] = value]
                BY <3>3, <1>1 DEF PutMember, CommitDirectory, Revised, WithMember, EnrollmentInv, TypeOK, Directory
            <4>3. o = m /\ directory'.members[m] = value
                BY <4>2, <1>1 DEF EnrollmentInv, TypeOK, Directory
            <4>4. CASE HasRole(directory, a, "owner")
                BY <4>1, <4>4
            <4>5. CASE value.role = "member" /\ (o \notin Known(directory) \/ HasRole(directory, o, "member"))
                <5>1. ~HasRole(directory', m, "owner") /\ ~HasRole(directory', m, "admin")
                    BY <4>3, <4>5 DEF HasRole
                <5>2. ~HasRole(directory, m, "owner") /\ ~HasRole(directory, m, "admin")
                    BY <4>3, <4>5 DEF HasRole
                <5> QED BY <5>1, <5>2
            <4> QED BY <4>1, <4>4, <4>5 DEF Ranks
        <3> QED BY <3>1, <3>2, <3>3 DEF PutTeam, RemoveTeam
    <2> QED BY <2>1, <2>2 DEF EnrollmentNext
<1> QED BY <1>1, EnrollmentInvariant, PTL DEF Spec, OnlyOwnersTouchManagers

---------------------------------------------------------------------------
(* The abstract promise *)

StageAt(b) == StageOf[bindings[b].phase]
Departed(d) == {m \in Members : HasState(d, m, "removed")}

(* Members who are removed stay removed.                                     *)
LEMMA DepartedStay ==
    ASSUME TypeOK, DirectoryNext
    PROVE  Departed(directory) \subseteq Departed(directory')
<1>1. PICK a \in Members :
        \/ \E m \in Members, value \in Member : PutMember(a, m, value)
        \/ \E t \in Teams, listed \in SUBSET Members : PutTeam(a, t, listed)
        \/ \E t \in Teams : RemoveTeam(a, t)
    BY DEF DirectoryNext
<1>2. ASSUME NEW t \in Teams, NEW listed, CommitDirectory(a, WithTeam(directory, t, listed))
      PROVE  Departed(directory) \subseteq Departed(directory')
    <2>1. directory'.members = directory.members
        BY <1>2 DEF CommitDirectory, Revised, WithTeam, TypeOK, Directory
    <2> QED BY <2>1 DEF Departed, HasState, Known
<1>3. ASSUME NEW m \in Members, NEW value \in Member, PutMember(a, m, value)
      PROVE  Departed(directory) \subseteq Departed(directory')
    <2>1. directory'.members = [directory.members EXCEPT ![m] = value]
        BY <1>3 DEF PutMember, CommitDirectory, Revised, WithMember, TypeOK, Directory
    <2>2. \A o \in Members : directory'.members[o] = IF o = m THEN value ELSE directory.members[o]
        BY <2>1 DEF TypeOK, Directory
    <2>3. value # Null
        BY NullAssumption
    <2>4. HasState(directory, m, "removed") => value.state = "removed"
        BY <1>3 DEF PutMember, MayBecome
    <2> QED BY <2>2, <2>3, <2>4 DEF Departed, HasState, Known
<1> QED BY <1>1, <1>2, <1>3 DEF PutTeam, RemoveTeam

LEMMA ActiveNotDeparted == \A d : Active(d) \subseteq Members \ Departed(d)
BY DEF Active, Departed, HasState

(* A record moved from one stage to another is a step of its device.         *)
LEMMA RecordStep ==
    ASSUME TypeOK, NEW b \in Bindings, NEW r \in Binding, bindings' = [bindings EXCEPT ![b] = r],
           \/ bindings[b].phase = "pending" /\ r.phase \in {"approved", "rejected"}
              /\ r.member \in Active(directory)
           \/ bindings[b].phase = "approved" /\ r.phase = "confirmed" /\ r.member = bindings[b].member
              /\ r.member \in Active(directory)
           \/ bindings[b].phase = "confirmed" /\ r.phase = "revoked" /\ r.member = bindings[b].member
              /\ r.member \in Active(directory)
    PROVE  \A d \in Bindings : Promise!Step(d)
<1>1. bindings'[b] = r
    BY DEF TypeOK
<1>2. Promise!Step(b)
    BY <1>1 DEF StageOf, Promise!Step, Promise!Turns, Promise!By, Promise!Keeps
<1>3. ASSUME NEW d \in Bindings, d # b PROVE Promise!Step(d)
    <2>1. bindings'[d] = bindings[d]
        BY <1>3 DEF TypeOK
    <2> QED BY <2>1 DEF Promise!Step, Promise!Keeps
<1> QED BY <1>2, <1>3

(* A slot that is left alone, or pruned, is a step of its device.            *)
LEMMA PruneStep ==
    ASSUME TypeOK, BindingsReopen, NEW kept \in Pruned(now), NEW d \in Bindings, bindings'[d] = kept[d]
    PROVE  Promise!Step(d)
<1>1. CASE kept = bindings
    BY <1>1 DEF Promise!Step, Promise!Keeps
<1>2. ASSUME NEW b \in Prunable(now), kept = [bindings EXCEPT ![b] = Blank("pruned")]
      PROVE  Promise!Step(d)
    <2>1. b \in Bindings /\ bindings[b].phase \in {"pending", "approved", "rejected"}
        BY DEF Prunable, Stored
    <2>2. CASE d = b
        <3>1. bindings'[d].phase = "pruned" /\ bindings'[d].member = Null
            BY <1>2, <2>1, <2>2 DEF TypeOK, Blank, Slot
        <3> QED BY <2>1, <2>2, <3>1 DEF StageOf, Promise!Step, Promise!Turns
    <2>3. CASE d # b
        <3>1. bindings'[d] = bindings[d]
            BY <1>2, <2>1, <2>3 DEF TypeOK
        <3> QED BY <3>1 DEF Promise!Step, Promise!Keeps
    <2> QED BY <2>2, <2>3
<1> QED BY <1>1, <1>2 DEF Pruned

(* A step of the bindings is a step of the devices' stages.                  *)
LEMMA StagesStep ==
    ASSUME TypeOK, BindingsReopen, BindingNext
    PROVE  \A d \in Bindings : Promise!Step(d)
<1>1. ASSUME NEW b \in Bindings, StartBinding(b)
      PROVE  \A d \in Bindings : Promise!Step(d)
    <2>1. PICK kept \in Pruned(now) : bindings' = [kept EXCEPT ![b] = Slot("pending", now, now + Ttl)]
        BY <1>1 DEF StartBinding
    <2>2. kept \in [Bindings -> Binding] /\ bindings[b].phase = "unused"
        BY <1>1, PrunedFacts DEF StartBinding
    <2>3. Promise!Step(b)
        <3>1. bindings'[b].phase = "pending" /\ bindings'[b].member = Null
            BY <2>1, <2>2 DEF Slot
        <3> QED BY <2>2, <3>1 DEF StageOf, Promise!Step, Promise!Turns
    <2>4. ASSUME NEW d \in Bindings, d # b PROVE Promise!Step(d)
        <3>1. bindings'[d] = kept[d]
            BY <2>1, <2>2, <2>4
        <3> QED BY <3>1, PruneStep
    <2> QED BY <2>3, <2>4
<1>2. CASE StartOnlyPrunes
    <2>1. bindings' \in Pruned(now)
        BY <1>2 DEF StartOnlyPrunes
    <2> QED BY <2>1, PruneStep
<1>3. ASSUME NEW b \in Bindings, NEW m \in Members, ApproveBinding(b, m)
      PROVE  \A d \in Bindings : Promise!Step(d)
    <2> DEFINE r == [bindings[b] EXCEPT !.phase = "approved", !.member = m, !.approvedAt = now]
    <2>1. bindings[b] \in Binding /\ now \in Nat
        BY EnrollmentAssumption DEF TypeOK, Time
    <2>2. r \in Binding /\ r.phase = "approved" /\ r.member = m
        BY <2>1 DEF Binding, Phases
    <2>3. bindings' = [bindings EXCEPT ![b] = r] /\ bindings[b].phase = "pending" /\ m \in Active(directory)
        BY <1>3 DEF ApproveBinding, MemberActs
    <2> HIDE DEF r
    <2> QED BY <2>2, <2>3, RecordStep
<1>4. ASSUME NEW b \in Bindings, NEW m \in Members, RejectBinding(b, m)
      PROVE  \A d \in Bindings : Promise!Step(d)
    <2> DEFINE r == [bindings[b] EXCEPT !.phase = "rejected", !.member = m, !.endedAt = now]
    <2>1. bindings[b] \in Binding /\ now \in Nat
        BY EnrollmentAssumption DEF TypeOK, Time
    <2>2. r \in Binding /\ r.phase = "rejected" /\ r.member = m
        BY <2>1 DEF Binding, Phases
    <2>3. bindings' = [bindings EXCEPT ![b] = r] /\ bindings[b].phase = "pending" /\ m \in Active(directory)
        BY <1>4 DEF RejectBinding, MemberActs
    <2> HIDE DEF r
    <2> QED BY <2>2, <2>3, RecordStep
<1>5. ASSUME NEW b \in Bindings, ConfirmBinding(b)
      PROVE  \A d \in Bindings : Promise!Step(d)
    <2> DEFINE r == [bindings[b] EXCEPT !.phase = "confirmed", !.confirmedAt = now]
    <2>1. bindings[b] \in Binding /\ now \in Nat
        BY EnrollmentAssumption DEF TypeOK, Time
    <2>2. r \in Binding /\ r.phase = "confirmed" /\ r.member = bindings[b].member
        BY <2>1 DEF Binding, Phases
    <2>3. bindings' = [bindings EXCEPT ![b] = r] /\ bindings[b].phase = "approved"
          /\ bindings[b].member \in Active(directory)
        BY <1>5 DEF ConfirmBinding, MemberActs
    <2> HIDE DEF r
    <2> QED BY <2>2, <2>3, RecordStep
<1>6. ASSUME NEW b \in Bindings, NEW m \in Members, RevokeBinding(b, m)
      PROVE  \A d \in Bindings : Promise!Step(d)
    <2> DEFINE r == [bindings[b] EXCEPT !.phase = "revoked", !.endedAt = now]
    <2>1. bindings[b] \in Binding /\ now \in Nat
        BY EnrollmentAssumption DEF TypeOK, Time
    <2>2. r \in Binding /\ r.phase = "revoked" /\ r.member = bindings[b].member
        BY <2>1 DEF Binding, Phases
    <2>3. bindings' = [bindings EXCEPT ![b] = r] /\ bindings[b].phase = "confirmed"
          /\ bindings[b].member \in Active(directory)
        BY <1>6 DEF RevokeBinding, MemberActs
    <2> HIDE DEF r
    <2> QED BY <2>2, <2>3, RecordStep
<1>7. CASE SetClock
    BY <1>7 DEF SetClock, Promise!Step, Promise!Keeps
<1> QED BY <1>1, <1>2, <1>3, <1>4, <1>5, <1>6, <1>7 DEF BindingNext

LEMMA PromiseInit == EnrollmentInit => Promise!Init
<1> SUFFICES ASSUME EnrollmentInit PROVE Promise!Init
    OBVIOUS
<1>1. \A b \in Bindings : bindings[b].phase = "unused" /\ bindings[b].member = Null
    BY DEF EnrollmentInit, Blank, Slot
<1>2. Departed(directory) = {}
    <2>1. \A m \in Members : directory.members[m] =
              IF m = Bootstrap THEN [role |-> "owner", state |-> "active"] ELSE Null
        BY DEF EnrollmentInit
    <2> QED BY <2>1 DEF Departed, HasState, Known
<1>3. Active(directory) \subseteq Members
    BY DEF Active
<1> QED BY <1>1, <1>2, <1>3 DEF Promise!Init, StageOf, Departed

LEMMA PromiseStep == EnrollmentInv /\ [EnrollmentNext]_enrollmentVars => [Promise!Next]_(Promise!promiseVars)
<1> SUFFICES ASSUME EnrollmentInv, [EnrollmentNext]_enrollmentVars
             PROVE  [Promise!Next]_(Promise!promiseVars)
    OBVIOUS
<1>1. CASE BindingNext
    <2>1. \A d \in Bindings : Promise!Step(d)
        BY <1>1, StagesStep DEF EnrollmentInv
    <2>2. UNCHANGED directory
        BY <1>1 DEF BindingNext, StartBinding, StartOnlyPrunes, ConfirmBinding, ApproveBinding,
                    RejectBinding, RevokeBinding, MemberActs, SetClock
    <2>3. Active(directory)' = Active(directory) /\ Departed(directory)' = Departed(directory)
        BY <2>2 DEF Active, Departed, HasState, Known
    <2> QED BY <2>1, <2>3, ActiveNotDeparted DEF Promise!Next, Departed
<1>2. CASE DirectoryNext
    <2>1. UNCHANGED bindings /\ Departed(directory) \subseteq Departed(directory')
        BY <1>2, CommandStep, DepartedStay DEF EnrollmentInv
    <2>2. \A d \in Bindings : Promise!Step(d)
        BY <2>1 DEF Promise!Step, Promise!Keeps
    <2>3. Active(directory') \subseteq Members \ Departed(directory')
        BY ActiveNotDeparted
    <2> QED BY <2>1, <2>2, <2>3 DEF Promise!Next, Departed
<1>3. CASE UNCHANGED enrollmentVars
    BY <1>3 DEF enrollmentVars, Promise!promiseVars, Active, HasState, Known
<1> QED BY <1>1, <1>2, <1>3 DEF EnrollmentNext

(* Trust is given and withdrawn as promised, for any number of devices and   *)
(* accounts, any limits, and whatever the clock does.                        *)
THEOREM EnrollmentKeepsPromise == Spec => ImplementsEnrollmentPromise
<1>1. EnrollmentInit => Promise!Init
    BY PromiseInit
<1>2. EnrollmentInv /\ [EnrollmentNext]_enrollmentVars => [Promise!Next]_(Promise!promiseVars)
    BY PromiseStep
<1> QED BY <1>1, <1>2, EnrollmentInvariant, PTL DEF Spec, ImplementsEnrollmentPromise, Promise!Spec

---------------------------------------------------------------------------
(***************************************************************************)
(* Invitations                                                             *)
(***************************************************************************)

InvitationType ==
    [status : {"none", "pending", "accepted", "declined", "revoked", "expired"},
     role : Roles, creator : Members \cup {Null}, claimant : Members \cup {Null}]

AcceptType ==
    {Idle}
    \cup [pc : {"read", "insert", "activate", "enter", "preview", "cleanup", "tombstone"},
          member : Members, invitation : Invitations,
          revision : 0..MaxRevision, attempt : Nat, inserted : BOOLEAN]

SyncType == [member : Members, role : Roles, state : Memberships]

(* The control plane: rows, and who is linked by which.                      *)
ControlInv ==
    /\ invitations \in [Invitations -> InvitationType]
    /\ memberships \in [Members -> Member \cup {Null}]
    /\ \A i \in Invitations : invitations[i].status = "none" => invitations[i].claimant = Null
    /\ LinkageIsExplained

InvitationsInv ==
    /\ TypeOK /\ ControlInv
    /\ accepts \in [Requests -> AcceptType]
    /\ syncs \subseteq SyncType

(* What no step takes back. *)
OutcomesKept ==
    /\ \A i \in Invitations :
          /\ invitations[i].claimant # Null => invitations'[i].claimant = invitations[i].claimant
          /\ invitations[i].status \notin {"none", "pending"} =>
                 invitations'[i].status = invitations[i].status
    /\ \A m \in Members : Standing(m) = "removed" => Standing(m)' = "removed"

(* What explains the standing of one member, and how the explanation lasts.  *)
Explained(m) ==
    \/ AcceptedBy(m)
    \/ Standing(m) \in {"none", "removed"}
    \/ /\ Standing(m) = "suspended"
       /\ \E i \in Invitations : /\ invitations[i].status = "pending"
                                 /\ invitations[i].claimant = m
                                 /\ invitations[i].role = memberships[m].role

LEMMA ControlKept ==
    ASSUME ControlInv, UNCHANGED control
    PROVE  ControlInv' /\ OutcomesKept
BY DEF ControlInv, control, OutcomesKept, LinkageIsExplained, AcceptedBy, Standing

LEMMA StandingFacts ==
    ASSUME memberships \in [Members -> Member \cup {Null}], NEW m \in Members
    PROVE  /\ Standing(m) = "none" <=> memberships[m] = Null
           /\ memberships[m] # Null => memberships[m] \in Member /\ Standing(m) = memberships[m].state
           /\ Standing(m) \in {"none", "active", "suspended", "removed"}
BY NullAssumption DEF Standing, Member, Memberships

(* An acceptance is never forgotten while statuses and claims are kept.      *)
LEMMA AcceptanceStays ==
    ASSUME ControlInv, OutcomesKept, NEW m \in Members, AcceptedBy(m)
    PROVE  AcceptedBy(m)'
BY NullAssumption DEF ControlInv, OutcomesKept, AcceptedBy

---------------------------------------------------------------------------
(* Steps of the control plane *)

LEMMA SetStateFacts ==
    ASSUME memberships \in [Members -> Member \cup {Null}], NEW m \in Members, NEW state \in Memberships,
           memberships[m] # Null
    PROVE  /\ SetState(m, state) \in [Members -> Member \cup {Null}]
           /\ SetState(m, state)[m] = [role |-> memberships[m].role, state |-> state]
           /\ \A n \in Members \ {m} : SetState(m, state)[n] = memberships[n]
BY DEF SetState, Member

LEMMA RemovesFacts ==
    ASSUME memberships \in [Members -> Member \cup {Null}], NEW m \in Members
    PROVE  /\ RemovesSuspended(m) \in [Members -> Member \cup {Null}]
           /\ \A n \in Members \ {m} : RemovesSuspended(m)[n] = memberships[n]
           /\ Standing(m) # "suspended" => RemovesSuspended(m) = memberships
           /\ Standing(m) = "suspended" =>
                  RemovesSuspended(m)[m] # Null /\ RemovesSuspended(m)[m].state = "removed"
<1>1. CASE Standing(m) = "suspended"
    <2>1. memberships[m] # Null
        BY <1>1 DEF Standing
    <2>2. [role |-> memberships[m].role, state |-> "removed"] \in Member
        BY <2>1 DEF Member, Memberships
    <2>3. RemovesSuspended(m) = SetState(m, "removed") /\ "removed" \in Memberships
        BY <1>1 DEF RemovesSuspended, Memberships
    <2>4. [role |-> memberships[m].role, state |-> "removed"] # Null
        BY <2>2, NullAssumption
    <2>5. /\ SetState(m, "removed") \in [Members -> Member \cup {Null}]
          /\ SetState(m, "removed")[m] = [role |-> memberships[m].role, state |-> "removed"]
          /\ \A n \in Members \ {m} : SetState(m, "removed")[n] = memberships[n]
        BY <2>1, <2>3, SetStateFacts
    <2> QED BY <1>1, <2>3, <2>4, <2>5
<1>2. CASE Standing(m) # "suspended"
    BY <1>2 DEF RemovesSuspended
<1> QED BY <1>1, <1>2

LEMMA ExpireStep ==
    ASSUME ControlInv, NEW S \in SUBSET Invitations, Expire(S)
    PROVE  ControlInv' /\ OutcomesKept
<1> DEFINE claimants == {invitations[i].claimant : i \in {j \in S : Lapsed(j)}}
<1>1. \A i \in Invitations :
          /\ invitations'[i].claimant = invitations[i].claimant /\ invitations'[i].role = invitations[i].role
          /\ invitations'[i] \in InvitationType
          /\ \/ invitations'[i] = invitations[i]
             \/ /\ i \in S /\ Lapsed(i) /\ invitations[i].status = "pending"
                /\ invitations'[i].status = "expired"
    BY DEF Expire, ControlInv, InvitationType, Lapsed
<1>2. \A m \in Members :
          /\ memberships'[m] \in Member \cup {Null}
          /\ \/ memberships'[m] = memberships[m] /\ (m \notin claimants \/ Standing(m) # "suspended")
             \/ m \in claimants /\ Standing(m) = "suspended" /\ Standing(m)' = "removed"
    BY NullAssumption DEF Expire, ControlInv, Standing, Member, Memberships
<1>3. invitations' \in [Invitations -> InvitationType] /\ memberships' \in [Members -> Member \cup {Null}]
    BY <1>1, <1>2 DEF Expire
<1>4. OutcomesKept
    BY <1>1, <1>2 DEF OutcomesKept, Standing
<1>5. ASSUME NEW m \in Members \ {Bootstrap} PROVE Explained(m)'
    <2>1. Explained(m)
        BY DEF ControlInv, LinkageIsExplained, Explained
    <2>2. CASE AcceptedBy(m)
        BY <1>4, <2>2, AcceptanceStays DEF Explained
    <2>3. CASE Standing(m) \in {"none", "removed"}
        BY <1>2, <2>3 DEF Explained, Standing
    <2>4. CASE Standing(m) = "suspended" /\ m \in claimants
        BY <1>2, <2>4 DEF Explained
    <2>5. CASE Standing(m) = "suspended" /\ m \notin claimants /\ ~AcceptedBy(m)
        <3>1. PICK i \in Invitations : /\ invitations[i].status = "pending"
                                       /\ invitations[i].claimant = m
                                       /\ invitations[i].role = memberships[m].role
            BY <2>1, <2>5 DEF Explained
        <3>2. memberships'[m] = memberships[m] /\ invitations'[i] = invitations[i]
            BY <1>1, <1>2, <2>5, <3>1
        <3> QED BY <2>5, <3>1, <3>2 DEF Explained, Standing
    <2> QED BY <2>1, <2>2, <2>3, <2>4, <2>5 DEF Explained
<1>6. \A i \in Invitations : invitations'[i].status = "none" => invitations'[i].claimant = Null
    BY <1>1 DEF ControlInv
<1> QED BY <1>3, <1>4, <1>5, <1>6 DEF ControlInv, LinkageIsExplained, Explained

(* One invitation changes, and the standing of at most its claimant.         *)
LEMMA OneInvitation ==
    ASSUME ControlInv, NEW i \in Invitations, NEW row \in InvitationType, NEW m \in Members,
           invitations' = [invitations EXCEPT ![i] = row],
           memberships' \in [Members -> Member \cup {Null}],
           \A n \in Members \ {m} : memberships'[n] = memberships[n],
           Standing(m) = "removed" => Standing(m)' = "removed",
           invitations[i].status \in {"none", "pending"} \/ row.status = invitations[i].status,
           invitations[i].claimant \in {Null, m}, row.claimant \in {Null, m},
           invitations[i].claimant = m => row.claimant = m,
           row.status = "none" => row.claimant = Null,
           m # Bootstrap => Explained(m)'
    PROVE  ControlInv' /\ OutcomesKept
<1>1. invitations'[i] = row /\ invitations' \in [Invitations -> InvitationType]
      /\ \A j \in Invitations \ {i} : invitations'[j] = invitations[j]
    BY DEF ControlInv
<1>2. OutcomesKept
    BY <1>1 DEF OutcomesKept, Standing
<1>3. ASSUME NEW n \in Members \ {Bootstrap, m} PROVE Explained(n)'
    <2>1. Explained(n) /\ memberships'[n] = memberships[n]
        BY DEF ControlInv, LinkageIsExplained, Explained
    <2>2. CASE AcceptedBy(n)
        BY <1>2, <2>2, AcceptanceStays DEF Explained
    <2>3. CASE ~AcceptedBy(n) /\ Standing(n) = "suspended"
        <3>1. PICK j \in Invitations : /\ invitations[j].status = "pending"
                                       /\ invitations[j].claimant = n
                                       /\ invitations[j].role = memberships[n].role
            BY <2>1, <2>3 DEF Explained
        <3>2. j # i
            BY <3>1, NullAssumption
        <3> QED BY <1>1, <2>1, <2>3, <3>1, <3>2 DEF Explained, Standing
    <2> QED BY <2>1, <2>2, <2>3 DEF Explained, Standing
<1>4. \A j \in Invitations : invitations'[j].status = "none" => invitations'[j].claimant = Null
    BY <1>1 DEF ControlInv
<1> QED BY <1>1, <1>2, <1>3, <1>4 DEF ControlInv, LinkageIsExplained, Explained

LEMMA EndsFacts ==
    ASSUME ControlInv, NEW i \in Invitations,
           NEW status \in {"accepted", "declined", "revoked", "expired"}
    PROVE  \E row \in InvitationType :
               /\ Ends(i, status) = [invitations EXCEPT ![i] = row]
               /\ row.status = status /\ row.claimant = invitations[i].claimant
<1> DEFINE row == [invitations[i] EXCEPT !.status = status]
<1>1. row \in InvitationType /\ row.status = status /\ row.claimant = invitations[i].claimant
    BY DEF ControlInv, InvitationType
<1>2. Ends(i, status) = [invitations EXCEPT ![i] = row]
    BY DEF Ends
<1> QED BY <1>1, <1>2

LEMMA CreateStep ==
    ASSUME ControlInv, NEW a \in Members, NEW i \in Invitations, NEW role \in Roles, Create(a, i, role)
    PROVE  ControlInv' /\ OutcomesKept
<1> DEFINE row == [status |-> "pending", role |-> role, creator |-> a, claimant |-> Null]
<1>1. row \in InvitationType /\ invitations[i].status = "none" /\ invitations[i].claimant = Null
    BY DEF InvitationType, Create, ControlInv
<1>2. invitations' = [invitations EXCEPT ![i] = row] /\ memberships' = memberships
    BY DEF Create
<1>3. invitations'[i] = row /\ \A j \in Invitations \ {i} : invitations'[j] = invitations[j]
    BY <1>2 DEF ControlInv
<1>4. Bootstrap # a \/ Bootstrap = a
    OBVIOUS
<1>5. a # Bootstrap => Explained(a)'
    <2>1. a # Bootstrap => Explained(a)
        BY DEF ControlInv, LinkageIsExplained, Explained
    <2> QED BY <1>1, <1>2, <1>3, <2>1, NullAssumption DEF Explained, AcceptedBy, Standing
<1> HIDE DEF row
<1> QED BY <1>1, <1>2, <1>5, OneInvitation DEF row, ControlInv, Standing

LEMMA RevokeStep ==
    ASSUME ControlInv, NEW a \in Members, NEW i \in Invitations, Revoke(a, i)
    PROVE  ControlInv' /\ OutcomesKept
<1>1. invitations[i].status = "pending" /\ invitations' = Ends(i, "revoked")
    BY DEF Revoke, Open
<1>2. PICK row \in InvitationType :
          invitations' = [invitations EXCEPT ![i] = row] /\ row.status = "revoked"
          /\ row.claimant = invitations[i].claimant
    BY <1>1, EndsFacts
<1>3. invitations'[i] = row /\ \A j \in Invitations \ {i} : invitations'[j] = invitations[j]
    BY <1>2 DEF ControlInv
<1>4. memberships \in [Members -> Member \cup {Null}]
    BY DEF ControlInv
<1>5. CASE invitations[i].claimant = Null
    <2>1. memberships' = memberships
        BY <1>5 DEF Revoke
    <2>2. a # Bootstrap => Explained(a)'
        <3>1. a # Bootstrap => Explained(a)
            BY DEF ControlInv, LinkageIsExplained, Explained
        <3> QED BY <1>1, <1>3, <1>5, <2>1, <3>1, NullAssumption DEF Explained, AcceptedBy, Standing
    <2> QED BY <1>1, <1>2, <1>4, <1>5, <2>1, <2>2, OneInvitation DEF Standing
<1>6. CASE invitations[i].claimant # Null
    <2>1. PICK m \in Members : invitations[i].claimant = m
        BY <1>6 DEF ControlInv, InvitationType
    <2>2. memberships' = RemovesSuspended(m)
        BY <1>6, <2>1 DEF Revoke
    <2>3. /\ memberships' \in [Members -> Member \cup {Null}]
          /\ \A n \in Members \ {m} : memberships'[n] = memberships[n]
          /\ Standing(m) = "removed" => Standing(m)' = "removed"
        BY <1>4, <2>2, RemovesFacts DEF Standing
    <2>4. m # Bootstrap => Explained(m)'
        <3>1. m # Bootstrap => Explained(m)
            BY DEF ControlInv, LinkageIsExplained, Explained
        <3>2. CASE Standing(m) = "suspended"
            BY <1>4, <2>2, <3>2, RemovesFacts DEF Explained, Standing
        <3>3. CASE Standing(m) # "suspended"
            <4>1. memberships' = memberships
                BY <1>4, <2>2, <3>3, RemovesFacts
            <4> QED BY <1>1, <1>3, <3>1, <3>3, <4>1 DEF Explained, AcceptedBy, Standing
        <3> QED BY <3>2, <3>3
    <2> QED BY <1>1, <1>2, <2>1, <2>3, <2>4, OneInvitation
<1> QED BY <1>5, <1>6

LEMMA DeclineStep ==
    ASSUME ControlInv, NEW m \in Members, NEW i \in Invitations, Decline(m, i)
    PROVE  ControlInv' /\ OutcomesKept
<1> DEFINE row == [[invitations[i] EXCEPT !.status = "declined"] EXCEPT !.claimant = m]
<1>1. /\ row \in InvitationType /\ row.status = "declined" /\ row.claimant = m
      /\ invitations' = [invitations EXCEPT ![i] = row]
      /\ invitations[i].status = "pending" /\ invitations[i].claimant \in {Null, m}
    BY DEF Decline, Open, ControlInv, InvitationType
<1> HIDE DEF row
<1>2. invitations'[i] = row /\ \A j \in Invitations \ {i} : invitations'[j] = invitations[j]
    BY <1>1 DEF ControlInv
<1>3. memberships \in [Members -> Member \cup {Null}] /\ memberships' = RemovesSuspended(m)
    BY DEF ControlInv, Decline
<1>4. /\ memberships' \in [Members -> Member \cup {Null}]
      /\ \A n \in Members \ {m} : memberships'[n] = memberships[n]
      /\ Standing(m) = "removed" => Standing(m)' = "removed"
    BY <1>3, RemovesFacts DEF Standing
<1>5. m # Bootstrap => Explained(m)'
    <2>1. m # Bootstrap => Explained(m)
        BY DEF ControlInv, LinkageIsExplained, Explained
    <2>2. CASE Standing(m) = "suspended"
        BY <1>3, <2>2, RemovesFacts DEF Explained, Standing
    <2>3. CASE Standing(m) # "suspended"
        <3>1. memberships' = memberships
            BY <1>3, <2>3, RemovesFacts
        <3> QED BY <1>1, <1>2, <2>1, <2>3, <3>1 DEF Explained, AcceptedBy, Standing
    <2> QED BY <2>2, <2>3
<1> QED BY <1>1, <1>4, <1>5, OneInvitation

LEMMA ClaimStep ==
    ASSUME ControlInv, NEW q \in Requests, NEW m \in Members, NEW i \in Invitations, Claim(q, m, i)
    PROVE  ControlInv' /\ OutcomesKept
<1> DEFINE row == [invitations[i] EXCEPT !.claimant = m]
<1>1. /\ row \in InvitationType /\ row.status = invitations[i].status /\ row.claimant = m
      /\ row.role = invitations[i].role /\ row.role \in Roles
      /\ invitations' = [invitations EXCEPT ![i] = row]
      /\ invitations[i].status \in {"pending", "accepted"} /\ invitations[i].claimant \in {Null, m}
    BY DEF Claim, Claimable, Open, ControlInv, InvitationType
<1> HIDE DEF row
<1>2. invitations'[i] = row /\ \A j \in Invitations \ {i} : invitations'[j] = invitations[j]
    BY <1>1 DEF ControlInv
<1>3. memberships \in [Members -> Member \cup {Null}] /\ Standing(m) # "removed"
    BY DEF ControlInv, Claim, Claimable
<1>4. CASE memberships[m] # Null
    <2>1. memberships' = memberships
        BY <1>4 DEF Claim
    <2>2. m # Bootstrap => Explained(m)'
        <3>1. m # Bootstrap => Explained(m)
            BY DEF ControlInv, LinkageIsExplained, Explained
        <3>2. ASSUME AcceptedBy(m) PROVE Explained(m)'
            <4>1. PICK j \in Invitations : invitations[j].status = "accepted" /\ invitations[j].claimant = m
                BY <3>2 DEF AcceptedBy
            <4>2. invitations'[j].status = "accepted" /\ invitations'[j].claimant = m
                BY <1>1, <1>2, <4>1
            <4> QED BY <4>2 DEF Explained, AcceptedBy
        <3>3. ASSUME Standing(m) = "suspended",
                     \E j \in Invitations : /\ invitations[j].status = "pending"
                                            /\ invitations[j].claimant = m
                                            /\ invitations[j].role = memberships[m].role
              PROVE  Explained(m)'
            <4>1. PICK j \in Invitations : /\ invitations[j].status = "pending"
                                           /\ invitations[j].claimant = m
                                           /\ invitations[j].role = memberships[m].role
                BY <3>3
            <4>2. /\ invitations'[j].status = "pending" /\ invitations'[j].claimant = m
                  /\ invitations'[j].role = memberships'[m].role
                BY <1>1, <1>2, <2>1, <4>1
            <4> QED BY <2>1, <3>3, <4>2 DEF Explained, Standing
        <3> QED BY <2>1, <3>1, <3>2, <3>3 DEF Explained, Standing
    <2> QED BY <1>1, <1>3, <2>1, <2>2, OneInvitation DEF Standing
<1>5. CASE memberships[m] = Null
    <2> DEFINE seat == [role |-> invitations[i].role, state |-> "suspended"]
    <2>1. memberships' = [memberships EXCEPT ![m] = seat] /\ seat \in Member
        BY <1>1, <1>5 DEF Claim, Member, Memberships
    <2>2. memberships'[m] = seat /\ seat # Null /\ memberships' \in [Members -> Member \cup {Null}]
          /\ \A n \in Members \ {m} : memberships'[n] = memberships[n]
        BY <1>3, <2>1, NullAssumption
    <2>3. Standing(m)' = "suspended" /\ memberships'[m].role = row.role
        BY <1>1, <2>2 DEF Standing
    <2>4. Explained(m)'
        BY <1>1, <1>2, <2>3 DEF Explained, AcceptedBy
    <2> QED BY <1>1, <1>3, <2>2, <2>4, OneInvitation
<1> QED BY <1>4, <1>5

LEMMA ActivateStep ==
    ASSUME InvitationsInv, NEW q \in Requests, Activate(q)
    PROVE  ControlInv' /\ OutcomesKept
<1>1. PICK m \in Members, i \in Invitations : m = accepts[q].member /\ i = accepts[q].invitation
    BY DEF InvitationsInv, AcceptType, Activate, Idle
<1>0. ControlInv
    BY DEF InvitationsInv
<1>2. CASE UNCHANGED control
    BY <1>0, <1>2, ControlKept
<1>3. CASE /\ Activatable(m, i) /\ invitations[i].status = "pending"
           /\ memberships' = SetState(m, "active") /\ invitations' = Ends(i, "accepted")
    <2>1. /\ memberships \in [Members -> Member \cup {Null}] /\ invitations[i].claimant = m
          /\ Standing(m) \in {"suspended", "active"} /\ memberships[m] # Null
        BY <1>0, <1>3 DEF ControlInv, Activatable, Open, Standing
    <2>2. PICK row \in InvitationType :
              invitations' = [invitations EXCEPT ![i] = row] /\ row.status = "accepted" /\ row.claimant = m
        BY <1>0, <1>3, <2>1, EndsFacts
    <2>3. memberships' \in [Members -> Member \cup {Null}]
          /\ \A n \in Members \ {m} : memberships'[n] = memberships[n]
        BY <1>1, <1>3, <2>1, SetStateFacts DEF Memberships
    <2>4. Explained(m)'
        <3>1. invitations'[i].status = "accepted" /\ invitations'[i].claimant = m
            BY <1>0, <2>2 DEF ControlInv
        <3> QED BY <3>1 DEF Explained, AcceptedBy
    <2> QED BY <1>0, <1>3, <2>1, <2>2, <2>3, <2>4, OneInvitation
<1>4. Activate(q) => \/ UNCHANGED control
                     \/ /\ Activatable(m, i) /\ invitations[i].status = "pending"
                        /\ memberships' = SetState(m, "active") /\ invitations' = Ends(i, "accepted")
    BY <1>1 DEF Activate, control
<1> QED BY <1>2, <1>3, <1>4

LEMMA SyncStep ==
    ASSUME InvitationsInv, NEW s \in syncs, Sync(s)
    PROVE  ControlInv' /\ OutcomesKept
<1>1. ControlInv /\ s.member \in Members /\ [role |-> s.role, state |-> s.state] \in Member
      /\ invitations' = invitations
    BY DEF InvitationsInv, SyncType, Member, Sync
<1>2. CASE memberships' = memberships
    BY <1>1, <1>2, ControlKept DEF control
<1>3. CASE /\ memberships[s.member] # Null /\ Mirrors(s)
           /\ memberships' = [memberships EXCEPT ![s.member] = [role |-> s.role, state |-> s.state]]
    <2>1. memberships' \in [Members -> Member \cup {Null}]
          /\ \A n \in Members \ {s.member} : memberships'[n] = memberships[n]
        BY <1>1, <1>3 DEF ControlInv
    <2>2. Standing(s.member) \in {"active", "suspended"}
        BY <1>1, <1>3, StandingFacts DEF Mirrors, ControlInv
    <2>3. s.member = Bootstrap \/ AcceptedBy(s.member)
        BY <1>1, <1>3, <2>2 DEF ControlInv, LinkageIsExplained, Mirrors, AcceptedBy
    <2>4. OutcomesKept
        BY <1>1, <2>1, <2>2 DEF OutcomesKept, Standing
    <2>5. \A n \in Members \ {Bootstrap} : Explained(n)'
        BY <1>1, <2>1, <2>3 DEF ControlInv, LinkageIsExplained, Explained, AcceptedBy, Standing
    <2> QED BY <1>1, <2>1, <2>4, <2>5 DEF ControlInv, LinkageIsExplained, Explained
<1> QED BY <1>2, <1>3 DEF Sync

LEMMA ControlStep ==
    ASSUME InvitationsInv, InvitationNext
    PROVE  ControlInv' /\ OutcomesKept
<1>1. ControlInv
    BY DEF InvitationsInv
<1>2. CASE InvitationStep
    <2>1. ASSUME NEW i \in Invitations, Lapse(i) PROVE UNCHANGED control
        BY <2>1 DEF Lapse
    <2>2. ASSUME NEW a \in Members, List(a) PROVE ControlInv' /\ OutcomesKept
        BY <1>1, <2>2, ExpireStep DEF List
    <2> QED BY <1>1, <1>2, <2>1, <2>2, ControlKept, RevokeStep, DeclineStep, CreateStep DEF InvitationStep
<1>3. CASE AcceptStep
    <2>1. PICK q \in Requests :
              \/ \E m \in Members, i \in Invitations : Claim(q, m, i)
              \/ ReadDirectory(q) \/ InsertMember(q) \/ Activate(q) \/ EnterAgain(q)
              \/ Preview(q) \/ RereadEntry(q) \/ Tombstone(q) \/ Abandon(q)
        BY <1>3 DEF AcceptStep
    <2>2. ASSUME Preview(q) PROVE ControlInv' /\ OutcomesKept
        <3>1. accepts[q].invitation \in Invitations
            BY <2>2 DEF InvitationsInv, AcceptType, Preview, Idle
        <3> QED BY <1>1, <2>2, <3>1, ExpireStep DEF Preview
    <2>3. CASE ReadDirectory(q) \/ InsertMember(q) \/ EnterAgain(q) \/ RereadEntry(q) \/ Tombstone(q) \/ Abandon(q)
        <3>1. UNCHANGED control
            BY <2>3 DEF ReadDirectory, InsertMember, EnterAgain, RereadEntry, Tombstone, Abandon
        <3> QED BY <1>1, <3>1, ControlKept
    <2> QED BY <1>1, <2>1, <2>2, <2>3, ClaimStep, ActivateStep
<1>4. CASE DirectoryStep
    <2>1. ASSUME NEW a \in Members, NEW m \in Members, NEW value \in Member, ChangeDirectory(a, m, value)
          PROVE  UNCHANGED control
        BY <2>1 DEF ChangeDirectory
    <2>2. ASSUME NEW s \in syncs, LoseSync(s) PROVE UNCHANGED control
        BY <2>2 DEF LoseSync
    <2> QED BY <1>1, <1>4, <2>1, <2>2, ControlKept, SyncStep DEF DirectoryStep
<1> QED BY <1>2, <1>3, <1>4 DEF InvitationNext

---------------------------------------------------------------------------
(* The directory and what requests hold *)

LEMMA PutMemberType ==
    ASSUME TypeOK, NEW a, NEW m \in Members, NEW value \in Member, PutMember(a, m, value)
    PROVE  TypeOK'
<1>1. a \in Members
    BY DEF PutMember, Manages, Active
<1>2. DirectoryNext
    BY <1>1 DEF DirectoryNext
<1>3. directory' \in Directory /\ actor' \in Members /\ UNCHANGED <<bindings, now>>
    BY <1>2, CommandStep
<1> QED BY <1>3 DEF TypeOK

LEMMA AtType ==
    ASSUME NEW r \in AcceptType, r # Idle,
           NEW pc \in {"read", "insert", "activate", "enter", "preview", "cleanup", "tombstone"}
    PROVE  [r EXCEPT !.pc = pc] \in AcceptType /\ [r EXCEPT !.pc = pc] # Idle
BY DEF AcceptType, Idle

LEMMA FieldTypes ==
    ASSUME NEW r \in AcceptType, r # Idle
    PROVE  /\ \A n \in 0..MaxRevision : [r EXCEPT !.revision = n] \in AcceptType
           /\ [r EXCEPT !.attempt = @ + 1] \in AcceptType
           /\ [r EXCEPT !.inserted = TRUE] \in AcceptType
           /\ r.member \in Members /\ r.invitation \in Invitations
<1>1. r \in [pc : {"read", "insert", "activate", "enter", "preview", "cleanup", "tombstone"},
             member : Members, invitation : Invitations,
             revision : 0..MaxRevision, attempt : Nat, inserted : BOOLEAN]
    BY DEF AcceptType
<1>2. [r EXCEPT !.attempt = @ + 1] \in AcceptType
    <2>1. r.attempt + 1 \in Nat
        BY <1>1
    <2> QED BY <1>1, <2>1 DEF AcceptType
<1>3. [r EXCEPT !.inserted = TRUE] \in AcceptType
    BY <1>1 DEF AcceptType
<1> QED BY <1>1, <1>2, <1>3 DEF AcceptType

(* A request in progress, when it takes a step of its own.                   *)
LEMMA AcceptsStep ==
    ASSUME InvitationsInv, AcceptStep
    PROVE  (accepts \in [Requests -> AcceptType])' /\ TypeOK'
<1>1. PICK q \in Requests :
          \/ \E m \in Members, i \in Invitations : Claim(q, m, i)
          \/ ReadDirectory(q) \/ InsertMember(q) \/ Activate(q) \/ EnterAgain(q)
          \/ Preview(q) \/ RereadEntry(q) \/ Tombstone(q) \/ Abandon(q)
    BY DEF AcceptStep
<1>2. /\ TypeOK /\ accepts \in [Requests -> AcceptType] /\ accepts[q] \in AcceptType
      /\ directory.revision \in 0..MaxRevision /\ Idle \in AcceptType
      /\ ControlInv
    BY DEF InvitationsInv, TypeOK, Directory, AcceptType
<1>3. ASSUME NEW r \in AcceptType, accepts' = [accepts EXCEPT ![q] = r]
      PROVE  (accepts \in [Requests -> AcceptType])'
    BY <1>2, <1>3
<1>4. UNCHANGED enrollmentVars => TypeOK'
    BY <1>2 DEF enrollmentVars, TypeOK
<1>5. ASSUME NEW m \in Members, NEW i \in Invitations, Claim(q, m, i)
      PROVE  (accepts \in [Requests -> AcceptType])' /\ TypeOK'
    <2> DEFINE pc == IF invitations[i].status = "pending" THEN "read" ELSE "enter"
               r == [Idle EXCEPT !.pc = pc, !.member = m, !.invitation = i, !.attempt = 1]
    <2>1. 0 \in 0..MaxRevision /\ pc \in {"read", "enter"}
        BY EnrollmentAssumption
    <2>2. r \in AcceptType
        <3> HIDE DEF pc
        <3> QED BY <2>1 DEF AcceptType, Idle
    <2>3. accepts' = [accepts EXCEPT ![q] = r] \/ accepts' = [accepts EXCEPT ![q] = Idle]
        BY <1>5 DEF Claim, Continues
    <2> HIDE DEF r
    <2>4. UNCHANGED enrollmentVars
        BY <1>5 DEF Claim
    <2> QED BY <1>2, <1>3, <1>4, <2>2, <2>3, <2>4
<1>6. CASE ReadDirectory(q) \/ Activate(q) \/ EnterAgain(q) \/ Preview(q) \/ RereadEntry(q) \/ Abandon(q)
    <2>1. accepts[q] # Idle
        BY <1>6 DEF ReadDirectory, Activate, EnterAgain, Preview, RereadEntry, Abandon, Idle
    <2>2. UNCHANGED enrollmentVars
        BY <1>6 DEF ReadDirectory, Activate, EnterAgain, Preview, RereadEntry, Abandon
    <2>3. \E r \in AcceptType : accepts' = [accepts EXCEPT ![q] = r]
        <3>1. \A pc \in {"insert", "activate", "preview", "cleanup", "tombstone"} :
                  /\ At(q, pc) \in AcceptType
                  /\ [At(q, pc) EXCEPT !.revision = directory.revision] \in AcceptType
            BY <1>2, <2>1, AtType, FieldTypes DEF At
        <3>2. CASE ReadDirectory(q)
            BY <3>1, <3>2 DEF ReadDirectory
        <3>3. CASE Activate(q)
            BY <1>2, <3>1, <3>3 DEF Activate, AfterFailure
        <3>4. CASE EnterAgain(q) \/ Abandon(q)
            BY <1>2, <3>4 DEF EnterAgain, Abandon
        <3>5. CASE Preview(q)
            BY <1>2, <3>1, <3>5 DEF Preview, Continues
        <3>6. CASE RereadEntry(q)
            BY <3>1, <3>6 DEF RereadEntry
        <3> QED BY <1>6, <3>2, <3>3, <3>4, <3>5, <3>6
    <2> QED BY <1>3, <1>4, <2>2, <2>3
<1>7. CASE InsertMember(q)
    <2>1. accepts[q] # Idle
        BY <1>7 DEF InsertMember, Idle
    <2>2. /\ [At(q, "activate") EXCEPT !.inserted = TRUE] \in AcceptType
          /\ [At(q, "read") EXCEPT !.attempt = @ + 1] \in AcceptType
        BY <1>2, <2>1, AtType, FieldTypes DEF At
    <2>3. \E r \in AcceptType : accepts' = [accepts EXCEPT ![q] = r]
        BY <1>2, <1>7, <2>2 DEF InsertMember, Continues
    <2>4. \/ UNCHANGED enrollmentVars
          \/ PutMember(invitations[accepts[q].invitation].creator, accepts[q].member,
                       [role |-> invitations[accepts[q].invitation].role, state |-> "active"])
        BY <1>7 DEF InsertMember
    <2>5. accepts[q].member \in Members
          /\ [role |-> invitations[accepts[q].invitation].role, state |-> "active"] \in Member
        BY <1>2, <2>1, FieldTypes DEF ControlInv, InvitationType, Member, Memberships
    <2> QED BY <1>2, <1>3, <1>4, <2>3, <2>4, <2>5, PutMemberType
<1>8. CASE Tombstone(q)
    <2>1. accepts[q] # Idle
        BY <1>8 DEF Tombstone, Idle
    <2>2. /\ accepts' = [accepts EXCEPT ![q] = Idle]
          /\ PutMember(invitations[accepts[q].invitation].creator, accepts[q].member,
                       [role |-> invitations[accepts[q].invitation].role, state |-> "removed"])
        BY <1>8 DEF Tombstone
    <2>3. accepts[q].member \in Members
          /\ [role |-> invitations[accepts[q].invitation].role, state |-> "removed"] \in Member
        BY <1>2, <2>1, FieldTypes DEF ControlInv, InvitationType, Member, Memberships
    <2> QED BY <1>2, <1>3, <2>2, <2>3, PutMemberType
<1> QED BY <1>1, <1>5, <1>6, <1>7, <1>8

LEMMA InitInvitations == InvitationInit => InvitationsInv
<1> SUFFICES ASSUME InvitationInit PROVE InvitationsInv
    OBVIOUS
<1>1. TypeOK
    BY InitInv DEF InvitationInit, EnrollmentInv
<1>2. memberships \in [Members -> Member \cup {Null}]
    BY DEF InvitationInit, Member, Roles, Memberships
<1>3. invitations \in [Invitations -> InvitationType]
    BY DEF InvitationInit, NotCreated, InvitationType, Roles
<1>4. LinkageIsExplained
    BY DEF InvitationInit, LinkageIsExplained, Standing
<1> QED BY <1>1, <1>2, <1>3, <1>4 DEF InvitationInit, InvitationsInv, ControlInv, NotCreated, AcceptType

LEMMA StepInvitations == InvitationsInv /\ [InvitationNext]_invitationVars => InvitationsInv'
<1> SUFFICES ASSUME InvitationsInv, [InvitationNext]_invitationVars PROVE InvitationsInv'
    OBVIOUS
<1>1. CASE InvitationStep
    <2>1. UNCHANGED <<enrollmentVars, accepts, syncs>>
        BY <1>1 DEF InvitationStep, Lapse, Revoke, Decline, Create, List
    <2>2. ControlInv'
        BY <1>1, ControlStep DEF InvitationNext
    <2> QED BY <2>1, <2>2 DEF InvitationsInv, enrollmentVars, TypeOK
<1>2. CASE AcceptStep
    <2>1. syncs' = syncs
        BY <1>2 DEF AcceptStep, Claim, ReadDirectory, InsertMember, Activate, EnterAgain, Preview,
                    RereadEntry, Tombstone, Abandon
    <2>2. ControlInv'
        BY <1>2, ControlStep DEF InvitationNext
    <2> QED BY <1>2, <2>1, <2>2, AcceptsStep DEF InvitationsInv
<1>3. CASE DirectoryStep
    <2>1. accepts' = accepts
        BY <1>3 DEF DirectoryStep, ChangeDirectory, Sync, LoseSync
    <2>2. ControlInv'
        BY <1>3, ControlStep DEF InvitationNext
    <2>3. TypeOK' /\ (syncs \subseteq SyncType)'
        <3>1. ASSUME NEW a \in Members, NEW m \in Members, NEW value \in Member, ChangeDirectory(a, m, value)
              PROVE  TypeOK' /\ (syncs \subseteq SyncType)'
            <4>1. [member |-> m, role |-> value.role, state |-> value.state] \in SyncType
                BY DEF Member, SyncType
            <4>2. (syncs \subseteq SyncType)'
                BY <3>1, <4>1 DEF ChangeDirectory, InvitationsInv
            <4>3. PutMember(a, m, value) \/ UNCHANGED enrollmentVars
                BY <3>1 DEF ChangeDirectory
            <4> QED BY <4>2, <4>3, PutMemberType DEF InvitationsInv, enrollmentVars, TypeOK
        <3>2. ASSUME NEW s \in syncs, Sync(s) \/ LoseSync(s)
              PROVE  TypeOK' /\ (syncs \subseteq SyncType)'
            BY <3>2 DEF Sync, LoseSync, InvitationsInv, enrollmentVars, TypeOK
        <3> QED BY <1>3, <3>1, <3>2 DEF DirectoryStep
    <2> QED BY <2>1, <2>2, <2>3 DEF InvitationsInv
<1>4. CASE UNCHANGED invitationVars
    <2>1. ControlInv'
        BY <1>4, ControlKept DEF invitationVars, control, InvitationsInv
    <2> QED BY <1>4, <2>1 DEF invitationVars, InvitationsInv, enrollmentVars, TypeOK
<1> QED BY <1>1, <1>2, <1>3, <1>4 DEF InvitationNext

(* Rows, directory and requests keep their shapes, and what links an account *)
(* is explained.                                                             *)
THEOREM InvitationsInvariant == InvitationSpec => []InvitationsInv
<1> QED BY InitInvitations, StepInvitations, PTL DEF InvitationSpec

(* Nobody belongs to an organization without an accepted invitation.         *)
THEOREM MembersWereInvited == InvitationSpec => []LinkageIsExplained
<1>1. InvitationsInv => LinkageIsExplained
    BY DEF InvitationsInv, ControlInv
<1> QED BY <1>1, InvitationsInvariant, PTL

(* Claims, outcomes and removals are final.                                  *)
THEOREM OutcomesStay == InvitationSpec => OutcomesAreFinal
<1>1. InvitationsInv /\ [InvitationNext]_invitationVars => [OutcomesKept]_invitationVars
    BY ControlStep
<1> QED BY <1>1, InvitationsInvariant, PTL DEF InvitationSpec, OutcomesAreFinal, OutcomesKept

---------------------------------------------------------------------------
(***************************************************************************)
(* Undoing a failed acceptance                                             *)
(***************************************************************************)

HoldingSteps == {"read", "insert", "activate", "preview", "cleanup", "tombstone"}

(* What a request in progress relies on.  The entry it made belongs to an    *)
(* account that has accepted no other invitation, and it is taken back only  *)
(* from an account whose membership is over.                                 *)
ReliesOn(r) ==
    LET m == r.member
        i == r.invitation
    IN
    /\ invitations[i].claimant = m /\ memberships[m] # Null
    /\ \/ invitations[i].status \in {"pending", "accepted"}
       \/ Standing(m) = "removed" \/ AcceptedBy(m) \/ m = Bootstrap
    /\ r.pc = "insert" => r.revision <= directory.revision
    /\ r.pc = "insert" /\ r.revision = directory.revision => m \notin Known(directory)
    /\ r.pc = "activate" => m \in Known(directory)
    /\ r.pc \in {"read", "insert"} => ~r.inserted
    /\ r.inserted => m # Bootstrap /\ (AcceptedBy(m) => invitations[i].status = "accepted")
    /\ r.pc \in {"cleanup", "tombstone"} => r.inserted /\ Standing(m) = "removed"

ClaimsAreSingle ==
    \A i \in Invitations : \A j \in Invitations :
        /\ invitations[i].status = "pending" /\ invitations[j].status = "pending"
        /\ invitations[i].claimant # Null /\ invitations[i].claimant = invitations[j].claimant
        => i = j

AcceptedWereClaimed ==
    \A i \in Invitations : invitations[i].status = "accepted" => invitations[i].claimant # Null

AcceptedAreKnown ==
    \A m \in Members : AcceptedBy(m) \/ m = Bootstrap => m \in Known(directory)

UndoInv ==
    /\ InvitationsInv
    /\ ClaimsAreSingle /\ AcceptedWereClaimed /\ AcceptedAreKnown
    /\ \A q \in Requests : accepts[q].pc \in HoldingSteps => ReliesOn(accepts[q])

(* What a step does to the control plane, for a request that looks on.       *)
NewlyAccepted(m) ==
    /\ m \in Known(directory) /\ Standing(m) # "removed"
    /\ \E j \in Invitations : /\ invitations[j].status = "pending" /\ invitations[j].claimant = m
                              /\ invitations'[j].status = "accepted"

ControlMoves ==
    /\ OutcomesKept
    /\ \A m \in Members : memberships[m] # Null => memberships'[m] # Null
    /\ \A i \in Invitations, m \in Members :
          invitations[i].status = "pending" /\ invitations[i].claimant = m =>
              \/ invitations'[i].status \in {"pending", "accepted"}
              \/ Standing(m) = "suspended" => Standing(m)' = "removed"
    /\ \A m \in Members : AcceptedBy(m)' => AcceptedBy(m) \/ NewlyAccepted(m)
    /\ ClaimsAreSingle' /\ AcceptedWereClaimed'

DirectoryMoves ==
    /\ Known(directory) \subseteq Known(directory')
    /\ directory' = directory \/ directory'.revision = directory.revision + 1

LEMMA PutMoves ==
    ASSUME TypeOK, NEW a, NEW m \in Members, NEW value \in Member, PutMember(a, m, value)
    PROVE  DirectoryMoves /\ m \in Known(directory') /\ directory'.revision = directory.revision + 1
<1>1. directory \in Directory /\ directory' = Revised(WithMember(directory, m, value))
    BY DEF TypeOK, PutMember, CommitDirectory
<1>2. /\ directory'.members = [directory.members EXCEPT ![m] = value]
      /\ directory'.revision = directory.revision + 1
    BY <1>1 DEF Revised, WithMember, Directory
<1>3. directory.members \in [Members -> Member \cup {Null}]
    BY <1>1 DEF Directory
<1> QED BY <1>2, <1>3, NullAssumption DEF DirectoryMoves, Known

(* One row changes without being accepted; a pending claim stays alone.      *)
LEMMA RowMoves ==
    ASSUME ClaimsAreSingle, AcceptedWereClaimed, NEW i \in Invitations,
           \A j \in Invitations \ {i} : invitations'[j] = invitations[j],
           invitations'[i].status = "accepted" =>
               invitations[i].status = "accepted" /\ invitations'[i].claimant = invitations[i].claimant,
           \A j \in Invitations \ {i} :
               ~(/\ invitations'[i].status = "pending" /\ invitations[j].status = "pending"
                 /\ invitations'[i].claimant # Null /\ invitations[j].claimant = invitations'[i].claimant)
    PROVE  /\ ClaimsAreSingle' /\ AcceptedWereClaimed'
           /\ \A m \in Members : AcceptedBy(m)' => AcceptedBy(m)
<1>1. ClaimsAreSingle'
    BY DEF ClaimsAreSingle
<1>2. AcceptedWereClaimed'
    BY DEF AcceptedWereClaimed
<1>3. \A m \in Members : AcceptedBy(m)' => AcceptedBy(m)
    BY DEF AcceptedBy
<1> QED BY <1>1, <1>2, <1>3

LEMMA StillMoves ==
    ASSUME UndoInv, UNCHANGED control
    PROVE  ControlMoves
<1>1. OutcomesKept
    BY ControlKept DEF UndoInv, InvitationsInv
<1>2. ClaimsAreSingle' /\ AcceptedWereClaimed'
    BY DEF UndoInv, control, ClaimsAreSingle, AcceptedWereClaimed
<1>3. \A m \in Members : AcceptedBy(m)' => AcceptedBy(m)
    BY DEF control, AcceptedBy
<1> QED BY <1>1, <1>2, <1>3 DEF ControlMoves, control

LEMMA ExpireMoves ==
    ASSUME UndoInv, NEW S \in SUBSET Invitations, Expire(S)
    PROVE  ControlMoves
<1> DEFINE claimants == {invitations[i].claimant : i \in {j \in S : Lapsed(j)}}
<1>0. ControlInv
    BY DEF UndoInv, InvitationsInv
<1>1. OutcomesKept
    BY <1>0, ExpireStep
<1>2. \A i \in Invitations :
          /\ invitations'[i].claimant = invitations[i].claimant
          /\ \/ invitations'[i] = invitations[i]
             \/ i \in S /\ Lapsed(i) /\ invitations'[i].status = "expired"
    BY <1>0 DEF Expire, ControlInv, InvitationType
<1>3. \A m \in Members :
          /\ memberships'[m] = memberships[m] \/ memberships'[m] # Null
          /\ m \in claimants /\ Standing(m) = "suspended" => Standing(m)' = "removed"
    BY <1>0, NullAssumption DEF Expire, ControlInv, Standing, Member, Memberships
<1>4. \A i \in Invitations, m \in Members :
          invitations[i].status = "pending" /\ invitations[i].claimant = m =>
              \/ invitations'[i].status \in {"pending", "accepted"}
              \/ Standing(m) = "suspended" => Standing(m)' = "removed"
    BY <1>2, <1>3
<1>5. ClaimsAreSingle' /\ AcceptedWereClaimed'
    BY <1>2 DEF UndoInv, ClaimsAreSingle, AcceptedWereClaimed
<1>6. \A m \in Members : AcceptedBy(m)' => AcceptedBy(m)
    BY <1>2 DEF AcceptedBy
<1> QED BY <1>1, <1>3, <1>4, <1>5, <1>6 DEF ControlMoves

LEMMA CreateMoves ==
    ASSUME UndoInv, NEW a \in Members, NEW i \in Invitations, NEW role \in Roles, Create(a, i, role)
    PROVE  ControlMoves
<1>0. ControlInv
    BY DEF UndoInv, InvitationsInv
<1>1. OutcomesKept
    BY <1>0, CreateStep
<1>2. /\ invitations[i].status = "none" /\ invitations'[i].status = "pending"
      /\ invitations'[i].claimant = Null
      /\ \A j \in Invitations \ {i} : invitations'[j] = invitations[j]
      /\ memberships' = memberships
    BY <1>0 DEF Create, ControlInv
<1>3. ClaimsAreSingle' /\ AcceptedWereClaimed' /\ \A m \in Members : AcceptedBy(m)' => AcceptedBy(m)
    BY <1>2, RowMoves DEF UndoInv
<1> QED BY <1>1, <1>2, <1>3 DEF ControlMoves

(* A pending invitation ends: by whoever may, for whoever claimed it.        *)
LEMMA EndMoves ==
    ASSUME UndoInv, OutcomesKept, NEW i \in Invitations, invitations[i].status = "pending",
           invitations'[i].status \in {"revoked", "declined"},
           \A j \in Invitations \ {i} : invitations'[j] = invitations[j],
           \/ invitations[i].claimant = Null /\ memberships' = memberships
           \/ \E m \in Members : invitations[i].claimant \in {Null, m} /\ memberships' = RemovesSuspended(m)
    PROVE  ControlMoves
<1>1. memberships \in [Members -> Member \cup {Null}]
    BY DEF UndoInv, InvitationsInv, ControlInv
<1>2. ClaimsAreSingle' /\ AcceptedWereClaimed' /\ \A m \in Members : AcceptedBy(m)' => AcceptedBy(m)
    BY RowMoves DEF UndoInv
<1>3. CASE invitations[i].claimant = Null /\ memberships' = memberships
    BY <1>2, <1>3, NullAssumption DEF ControlMoves
<1>4. ASSUME NEW m \in Members, invitations[i].claimant \in {Null, m}, memberships' = RemovesSuspended(m)
      PROVE  ControlMoves
    <2>1. /\ \A n \in Members \ {m} : memberships'[n] = memberships[n]
          /\ Standing(m) # "suspended" => memberships' = memberships
          /\ Standing(m) = "suspended" => memberships'[m] # Null /\ memberships'[m].state = "removed"
        BY <1>1, <1>4, RemovesFacts
    <2>2. Standing(m) = "suspended" => Standing(m)' = "removed"
        BY <2>1 DEF Standing
    <2>3. \A n \in Members : memberships[n] # Null => memberships'[n] # Null
        BY <2>1
    <2> QED BY <1>2, <1>4, <2>2, <2>3, NullAssumption DEF ControlMoves
<1> QED BY <1>3, <1>4

LEMMA ClaimMoves ==
    ASSUME UndoInv, NEW q \in Requests, NEW m \in Members, NEW i \in Invitations, Claim(q, m, i)
    PROVE  /\ ControlMoves
           /\ invitations'[i].claimant = m /\ invitations'[i].status = invitations[i].status
           /\ memberships'[m] # Null
<1>0. ControlInv
    BY DEF UndoInv, InvitationsInv
<1>1. OutcomesKept
    BY <1>0, ClaimStep
<1>2. /\ invitations'[i].claimant = m /\ invitations'[i].status = invitations[i].status
      /\ \A j \in Invitations \ {i} : invitations'[j] = invitations[j]
    BY <1>0 DEF Claim, ControlInv, InvitationType
<1>3. /\ invitations[i].status \in {"pending", "accepted"} /\ invitations[i].claimant \in {Null, m}
      /\ invitations[i].status = "pending" =>
             \A j \in Invitations \ {i} :
                 ~(invitations[j].status = "pending" /\ invitations[j].claimant = m)
    BY DEF Claim, Claimable, Open
<1>4. memberships'[m] # Null /\ \A n \in Members \ {m} : memberships'[n] = memberships[n]
    BY <1>0, NullAssumption DEF Claim, ControlInv, InvitationType, Member, Memberships
<1>5. ClaimsAreSingle' /\ AcceptedWereClaimed' /\ \A n \in Members : AcceptedBy(n)' => AcceptedBy(n)
    <2>1. invitations'[i].status = "accepted" =>
              invitations[i].status = "accepted" /\ invitations'[i].claimant = invitations[i].claimant
        BY <1>2, <1>3 DEF UndoInv, AcceptedWereClaimed
    <2>2. \A j \in Invitations \ {i} :
              ~(/\ invitations'[i].status = "pending" /\ invitations[j].status = "pending"
                /\ invitations'[i].claimant # Null /\ invitations[j].claimant = invitations'[i].claimant)
        BY <1>2, <1>3
    <2> QED BY <1>2, <2>1, <2>2, RowMoves DEF UndoInv
<1>6. \A j \in Invitations : invitations'[j].status = invitations[j].status
    BY <1>2
<1> QED BY <1>1, <1>2, <1>4, <1>5, <1>6 DEF ControlMoves

LEMMA ActivateMoves ==
    ASSUME UndoInv, NEW q \in Requests, Activate(q)
    PROVE  ControlMoves
<1>0. ControlInv /\ InvitationsInv
    BY DEF UndoInv, InvitationsInv
<1>1. OutcomesKept
    BY <1>0, ActivateStep
<1>2. PICK m \in Members, i \in Invitations : m = accepts[q].member /\ i = accepts[q].invitation
    BY <1>0 DEF InvitationsInv, AcceptType, Activate, Idle
<1>3. CASE UNCHANGED control
    BY <1>3, StillMoves
<1>4. CASE /\ Activatable(m, i) /\ invitations[i].status = "pending"
           /\ memberships' = SetState(m, "active") /\ invitations' = Ends(i, "accepted")
    <2>1. /\ memberships \in [Members -> Member \cup {Null}] /\ invitations[i].claimant = m
          /\ Standing(m) \in {"suspended", "active"} /\ memberships[m] # Null
        BY <1>0, <1>4 DEF ControlInv, Activatable, Open, Standing
    <2>2. /\ invitations'[i].status = "accepted" /\ invitations'[i].claimant = m
          /\ \A j \in Invitations \ {i} : invitations'[j] = invitations[j]
        BY <1>0, <1>4, <2>1 DEF Ends, ControlInv, InvitationType
    <2>3. \A n \in Members : memberships[n] # Null => memberships'[n] # Null
        <3>1. memberships'[m] = [role |-> memberships[m].role, state |-> "active"]
              /\ \A n \in Members \ {m} : memberships'[n] = memberships[n]
            BY <1>4, <2>1, SetStateFacts DEF Memberships
        <3>2. memberships'[m] \in Member
            BY <2>1, <3>1 DEF Member, Memberships
        <3> QED BY <3>1, <3>2, NullAssumption
    <2>4. m \in Known(directory)
        BY <1>2 DEF UndoInv, ReliesOn, HoldingSteps, Activate
    <2>5. \A n \in Members : AcceptedBy(n)' => AcceptedBy(n) \/ NewlyAccepted(n)
        BY <1>4, <2>1, <2>2, <2>4 DEF AcceptedBy, NewlyAccepted
    <2>6. ClaimsAreSingle' /\ AcceptedWereClaimed'
        <3>1. ClaimsAreSingle'
            BY <2>2 DEF UndoInv, ClaimsAreSingle
        <3>2. AcceptedWereClaimed'
            BY <2>2, NullAssumption DEF UndoInv, AcceptedWereClaimed
        <3> QED BY <3>1, <3>2
    <2>7. \A j \in Invitations :
              invitations[j].status = "pending" => invitations'[j].status \in {"pending", "accepted"}
        BY <2>2
    <2> QED BY <1>1, <2>3, <2>5, <2>6, <2>7 DEF ControlMoves
<1>5. \/ UNCHANGED control
      \/ /\ Activatable(m, i) /\ invitations[i].status = "pending"
         /\ memberships' = SetState(m, "active") /\ invitations' = Ends(i, "accepted")
    BY <1>2 DEF Activate, control
<1> QED BY <1>3, <1>4, <1>5

LEMMA SyncMoves ==
    ASSUME UndoInv, NEW s \in syncs, Sync(s)
    PROVE  ControlMoves
<1>1. InvitationsInv /\ ControlInv /\ s.member \in Members
      /\ [role |-> s.role, state |-> s.state] \in Member /\ invitations' = invitations
    BY DEF UndoInv, InvitationsInv, SyncType, Member, Sync
<1>2. OutcomesKept
    BY <1>1, SyncStep
<1>3. \A n \in Members : memberships[n] # Null => memberships'[n] # Null
    BY <1>1, NullAssumption DEF Sync, ControlInv
<1>4. ClaimsAreSingle' /\ AcceptedWereClaimed'
    BY <1>1 DEF UndoInv, ClaimsAreSingle, AcceptedWereClaimed
<1>5. \A n \in Members : AcceptedBy(n)' => AcceptedBy(n)
    BY <1>1 DEF AcceptedBy
<1> QED BY <1>1, <1>2, <1>3, <1>4, <1>5 DEF ControlMoves

LEMMA RequestFacts ==
    ASSUME InvitationsInv, NEW r \in AcceptType, r # Idle
    PROVE  /\ r.member \in Members /\ r.member # Null /\ r.invitation \in Invitations
           /\ r.revision \in Int /\ directory.revision \in Int
<1>1. r \in [pc : {"read", "insert", "activate", "enter", "preview", "cleanup", "tombstone"},
             member : Members, invitation : Invitations,
             revision : 0..MaxRevision, attempt : Nat, inserted : BOOLEAN]
    BY DEF AcceptType
<1>2. directory.revision \in 0..MaxRevision
    BY DEF InvitationsInv, TypeOK, Directory
<1> QED BY <1>1, <1>2, NullAssumption

(* Whatever others do, a request can go on relying on what it held.          *)
LEMMA ReliesStay ==
    ASSUME UndoInv, ControlMoves, DirectoryMoves, NEW r \in AcceptType, r # Idle, ReliesOn(r)
    PROVE  ReliesOn(r)'
<1> DEFINE m == r.member
           i == r.invitation
<1>1. m \in Members /\ m # Null /\ i \in Invitations /\ r.revision \in Int /\ directory.revision \in Int
    BY RequestFacts DEF UndoInv
<1>2. ControlInv /\ OutcomesKept
    BY DEF UndoInv, InvitationsInv, ControlMoves
<1>3. invitations[i].claimant = m /\ memberships[m] # Null
    BY DEF ReliesOn
<1>4. invitations'[i].claimant = m /\ memberships'[m] # Null
    BY <1>1, <1>2, <1>3 DEF OutcomesKept, ControlMoves
<1>5. /\ Standing(m) = "removed" => Standing(m)' = "removed"
      /\ AcceptedBy(m) => AcceptedBy(m)'
      /\ invitations[i].status = "accepted" => invitations'[i].status = "accepted"
    BY <1>1, <1>2, AcceptanceStays DEF OutcomesKept
<1>6. \/ invitations'[i].status \in {"pending", "accepted"}
      \/ Standing(m)' = "removed" \/ AcceptedBy(m)' \/ m = Bootstrap
    <2>1. CASE invitations[i].status = "pending"
        <3>1. m = Bootstrap \/ AcceptedBy(m) \/ Standing(m) \in {"removed", "suspended"}
            BY <1>1, <1>2, <1>3, StandingFacts DEF ControlInv, LinkageIsExplained
        <3>2. \/ invitations'[i].status \in {"pending", "accepted"}
              \/ Standing(m) = "suspended" => Standing(m)' = "removed"
            BY <1>1, <1>3, <2>1 DEF ControlMoves
        <3> QED BY <1>5, <3>1, <3>2
    <2>2. CASE invitations[i].status # "pending"
        BY <1>5, <2>2 DEF ReliesOn
    <2> QED BY <2>1, <2>2
<1>7. r.pc = "insert" => /\ r.revision <= directory'.revision
                         /\ r.revision = directory'.revision => m \notin Known(directory')
    BY <1>1 DEF ReliesOn, DirectoryMoves
<1>8. r.pc = "activate" => m \in Known(directory')
    BY DEF ReliesOn, DirectoryMoves
<1>9. r.inserted => m # Bootstrap /\ (AcceptedBy(m)' => invitations'[i].status = "accepted")
    <2> SUFFICES ASSUME r.inserted PROVE m # Bootstrap /\ (AcceptedBy(m)' => invitations'[i].status = "accepted")
        OBVIOUS
    <2>1. m # Bootstrap /\ (AcceptedBy(m) => invitations[i].status = "accepted")
        BY DEF ReliesOn
    <2>2. ASSUME NewlyAccepted(m) PROVE invitations'[i].status = "accepted"
        <3>1. PICK j \in Invitations : /\ invitations[j].status = "pending" /\ invitations[j].claimant = m
                                       /\ invitations'[j].status = "accepted"
            BY <2>2 DEF NewlyAccepted
        <3>2. CASE invitations[i].status = "pending"
            BY <1>1, <1>3, <3>1, <3>2 DEF UndoInv, ClaimsAreSingle
        <3>3. CASE invitations[i].status # "pending"
            BY <1>5, <2>1, <2>2, <3>3 DEF ReliesOn, NewlyAccepted
        <3> QED BY <3>2, <3>3
    <2> QED BY <1>1, <1>5, <2>1, <2>2 DEF ControlMoves
<1> HIDE DEF m, i
<1>10. r.pc \in {"read", "insert"} => ~r.inserted
    BY DEF ReliesOn
<1>11. r.pc \in {"cleanup", "tombstone"} => r.inserted /\ Standing(m)' = "removed"
    BY <1>5 DEF ReliesOn, m
<1> QED BY <1>4, <1>6, <1>7, <1>8, <1>9, <1>10, <1>11 DEF ReliesOn, m, i

LEMMA AcceptedStayKnown ==
    ASSUME UndoInv, ControlMoves, DirectoryMoves
    PROVE  AcceptedAreKnown'
BY EnrollmentAssumption DEF UndoInv, AcceptedAreKnown, ControlMoves, DirectoryMoves, NewlyAccepted

---------------------------------------------------------------------------
(* The steps of a request itself *)

LEMMA AtFields ==
    ASSUME NEW q \in Requests, NEW pc, accepts[q] \in AcceptType, accepts[q] # Idle
    PROVE  /\ At(q, pc).pc = pc
           /\ At(q, pc).member = accepts[q].member /\ At(q, pc).invitation = accepts[q].invitation
           /\ At(q, pc).revision = accepts[q].revision /\ At(q, pc).inserted = accepts[q].inserted
BY DEF At, AcceptType

LEMMA ClaimRelies ==
    ASSUME UndoInv, NEW q \in Requests, NEW m \in Members, NEW i \in Invitations, Claim(q, m, i),
           accepts'[q].pc \in HoldingSteps
    PROVE  ReliesOn(accepts[q])'
<1>1. /\ invitations'[i].claimant = m /\ invitations'[i].status = invitations[i].status
      /\ memberships'[m] # Null
    BY ClaimMoves
<1>2. /\ accepts'[q].pc = "read" /\ accepts'[q].member = m /\ accepts'[q].invitation = i
      /\ accepts'[q].inserted = FALSE /\ invitations[i].status = "pending"
    <2> DEFINE next == [Idle EXCEPT !.pc = IF invitations[i].status = "pending" THEN "read" ELSE "enter",
                                    !.member = m, !.invitation = i, !.attempt = 1]
    <2>1. accepts'[q] = next \/ accepts'[q] = Idle
        BY DEF Claim, Continues, UndoInv, InvitationsInv
    <2>2. /\ next.member = m /\ next.invitation = i /\ next.inserted = FALSE
          /\ next.pc = IF invitations[i].status = "pending" THEN "read" ELSE "enter"
        BY DEF Idle
    <2>3. Idle.pc \notin HoldingSteps /\ "enter" \notin HoldingSteps
        BY DEF Idle, HoldingSteps
    <2> HIDE DEF next
    <2> QED BY <2>1, <2>2, <2>3
<1> QED BY <1>1, <1>2 DEF ReliesOn

LEMMA OwnRelies ==
    ASSUME UndoInv, ControlMoves, DirectoryMoves, NEW q \in Requests,
           \/ ReadDirectory(q) \/ InsertMember(q) \/ Activate(q) \/ EnterAgain(q)
           \/ Preview(q) \/ RereadEntry(q) \/ Tombstone(q) \/ Abandon(q),
           accepts'[q].pc \in HoldingSteps
    PROVE  ReliesOn(accepts[q])'
<1>1. InvitationsInv /\ ControlInv /\ accepts[q] \in AcceptType /\ accepts \in [Requests -> AcceptType]
    BY DEF UndoInv, InvitationsInv
<1>2. PICK r \in AcceptType : r = accepts[q]
    BY <1>1
<1>3. accepts'[q] # Idle
    BY DEF HoldingSteps, Idle
<1>4. ~EnterAgain(q) /\ ~Tombstone(q) /\ ~Abandon(q)
    BY <1>1, <1>3 DEF EnterAgain, Tombstone, Abandon
<1>5. r # Idle /\ r.pc \in HoldingSteps
    BY <1>2, <1>4 DEF ReadDirectory, InsertMember, Activate, Preview, RereadEntry, Idle, HoldingSteps
<1>6. ReliesOn(r) /\ ReliesOn(r)'
    <2>1. ReliesOn(r)
        BY <1>2, <1>5 DEF UndoInv
    <2> QED BY <1>5, <2>1, ReliesStay
<1>7. r.member \in Members /\ r.invitation \in Invitations
    BY <1>1, <1>5, RequestFacts
<1>8. \A pc \in HoldingSteps : /\ At(q, pc).pc = pc
                               /\ At(q, pc).member = r.member /\ At(q, pc).invitation = r.invitation
                               /\ At(q, pc).revision = r.revision /\ At(q, pc).inserted = r.inserted
    BY <1>2, <1>5, AtFields
<1>9. CASE ReadDirectory(q)
    <2>1. UNCHANGED directory
        BY <1>9 DEF ReadDirectory, enrollmentVars
    <2>2. r.pc = "read" /\ ~r.inserted
        BY <1>2, <1>6, <1>9 DEF ReadDirectory, ReliesOn
    <2>3. CASE /\ r.member \notin Known(directory)
               /\ accepts' = [accepts EXCEPT ![q] = [At(q, "insert") EXCEPT !.revision = directory.revision]]
        <3>1. /\ accepts'[q].pc = "insert" /\ accepts'[q].revision = directory.revision
              /\ accepts'[q].member = r.member /\ accepts'[q].invitation = r.invitation
              /\ accepts'[q].inserted = FALSE
            BY <1>1, <1>2, <1>5, <1>8, <2>2, <2>3 DEF HoldingSteps, At, AcceptType
        <3>2. directory.revision \in Int
            BY <1>1, <1>5, RequestFacts
        <3> QED BY <1>6, <2>1, <2>3, <3>1, <3>2 DEF ReliesOn
    <2>4. CASE /\ r.member \in Known(directory)
               /\ accepts' = [accepts EXCEPT ![q] = At(q, "activate")]
        <3>1. /\ accepts'[q].pc = "activate" /\ accepts'[q].inserted = r.inserted
              /\ accepts'[q].member = r.member /\ accepts'[q].invitation = r.invitation
            BY <1>1, <1>8, <2>4 DEF HoldingSteps
        <3> QED BY <1>6, <2>1, <2>2, <2>4, <3>1 DEF ReliesOn
    <2> QED BY <1>2, <1>9, <2>3, <2>4 DEF ReadDirectory
<1>10. CASE InsertMember(q)
    <2>1. r.pc = "insert" /\ ~r.inserted /\ UNCHANGED control
        BY <1>2, <1>6, <1>10 DEF InsertMember, ReliesOn
    <2>2. CASE /\ directory.revision = r.revision
               /\ PutMember(invitations[r.invitation].creator, r.member,
                            [role |-> invitations[r.invitation].role, state |-> "active"])
               /\ accepts' = [accepts EXCEPT ![q] = [At(q, "activate") EXCEPT !.inserted = TRUE]]
        <3>1. r.member \notin Known(directory)
            BY <1>6, <2>1, <2>2 DEF ReliesOn
        <3>2. r.member # Bootstrap /\ ~AcceptedBy(r.member)
            BY <1>7, <3>1 DEF UndoInv, AcceptedAreKnown
        <3>3. ~AcceptedBy(r.member)'
            BY <2>1, <3>2 DEF control, AcceptedBy
        <3>4. r.member \in Known(directory')
            <4>1. [role |-> invitations[r.invitation].role, state |-> "active"] \in Member
                BY <1>1, <1>7 DEF ControlInv, InvitationType, Member, Memberships
            <4> QED BY <1>1, <1>7, <2>2, <4>1, PutMoves DEF InvitationsInv
        <3>5. /\ accepts'[q].pc = "activate" /\ accepts'[q].inserted = TRUE
              /\ accepts'[q].member = r.member /\ accepts'[q].invitation = r.invitation
            BY <1>1, <1>2, <1>5, <2>2 DEF At, AcceptType
        <3> QED BY <1>6, <3>2, <3>3, <3>4, <3>5 DEF ReliesOn
    <2>3. CASE accepts' = [accepts EXCEPT ![q] = [At(q, "read") EXCEPT !.attempt = @ + 1]]
        <3>1. /\ accepts'[q].pc = "read" /\ accepts'[q].inserted = r.inserted
              /\ accepts'[q].member = r.member /\ accepts'[q].invitation = r.invitation
            BY <1>1, <1>2, <1>5, <2>3 DEF At, AcceptType
        <3> QED BY <1>6, <2>1, <3>1 DEF ReliesOn
    <2> QED BY <1>1, <1>2, <1>3, <1>10, <2>2, <2>3 DEF InsertMember, Continues
<1>11. CASE Activate(q)
    <2>1. CASE accepts' = [accepts EXCEPT ![q] = At(q, "preview")]
        <3>1. /\ accepts'[q].pc = "preview" /\ accepts'[q].inserted = r.inserted
              /\ accepts'[q].member = r.member /\ accepts'[q].invitation = r.invitation
            BY <1>1, <1>8, <2>1 DEF HoldingSteps
        <3> QED BY <1>6, <3>1 DEF ReliesOn
    <2>2. CASE /\ accepts' = [accepts EXCEPT ![q] = At(q, "cleanup")] /\ UNCHANGED control /\ r.inserted
               /\ Open(r.invitation) \/ invitations[r.invitation].status = "accepted"
               /\ \/ Open(r.invitation) /\ memberships[r.member].role # invitations[r.invitation].role
                  \/ Standing(r.member) \notin {"suspended", "active"}
        <3>1. /\ accepts'[q].pc = "cleanup" /\ accepts'[q].inserted = r.inserted
              /\ accepts'[q].member = r.member /\ accepts'[q].invitation = r.invitation
            BY <1>1, <1>8, <2>2 DEF HoldingSteps
        <3>2. /\ invitations[r.invitation].claimant = r.member /\ memberships[r.member] # Null
              /\ r.member # Bootstrap
              /\ AcceptedBy(r.member) => invitations[r.invitation].status = "accepted"
            BY <1>6, <2>2 DEF ReliesOn
        <3>3. Standing(r.member) \in {"active", "suspended", "removed"}
            BY <1>1, <1>7, <3>2, StandingFacts DEF ControlInv
        <3>4. Standing(r.member) = "removed"
            <4>1. CASE Standing(r.member) \notin {"suspended", "active"}
                BY <3>3, <4>1
            <4>2. CASE Open(r.invitation) /\ memberships[r.member].role # invitations[r.invitation].role
                <5>1. invitations[r.invitation].status = "pending" /\ ~AcceptedBy(r.member)
                    BY <3>2, <4>2 DEF Open
                <5>2. \/ Standing(r.member) = "removed"
                      \/ \E j \in Invitations : /\ invitations[j].status = "pending"
                                                /\ invitations[j].claimant = r.member
                                                /\ invitations[j].role = memberships[r.member].role
                    BY <1>1, <1>7, <3>2, <3>3, <5>1 DEF ControlInv, LinkageIsExplained
                <5>3. r.member # Null
                    BY <1>7, NullAssumption
                <5> QED BY <1>7, <3>2, <4>2, <5>1, <5>2, <5>3 DEF UndoInv, ClaimsAreSingle
            <4> QED BY <2>2, <4>1, <4>2
        <3>5. Standing(r.member)' = "removed"
            BY <2>2, <3>4 DEF control, Standing
        <3> QED BY <1>6, <2>2, <3>1, <3>5 DEF ReliesOn
    <2> QED BY <1>1, <1>2, <1>3, <1>11, <2>1, <2>2 DEF Activate, AfterFailure
<1>12. CASE Preview(q)
    <2>1. /\ accepts' = [accepts EXCEPT ![q] = At(q, "cleanup")] /\ r.inserted
          /\ invitations'[r.invitation].status \in {"revoked", "expired", "declined"}
        BY <1>1, <1>2, <1>3, <1>12 DEF Preview, Continues
    <2>2. /\ accepts'[q].pc = "cleanup" /\ accepts'[q].inserted = r.inserted
          /\ accepts'[q].member = r.member /\ accepts'[q].invitation = r.invitation
        BY <1>1, <1>8, <2>1 DEF HoldingSteps
    <2>3. Standing(r.member)' = "removed"
        BY <1>6, <2>1 DEF ReliesOn
    <2> QED BY <1>6, <2>1, <2>2, <2>3 DEF ReliesOn
<1>13. CASE RereadEntry(q)
    <2>1. /\ accepts'[q].pc = "tombstone" /\ accepts'[q].inserted = r.inserted
          /\ accepts'[q].member = r.member /\ accepts'[q].invitation = r.invitation
        BY <1>1, <1>2, <1>5, <1>13 DEF RereadEntry, At, AcceptType
    <2>2. r.pc = "cleanup"
        BY <1>2, <1>13 DEF RereadEntry
    <2> QED BY <1>6, <2>1, <2>2 DEF ReliesOn
<1> QED BY <1>4, <1>9, <1>10, <1>11, <1>12, <1>13

LEMMA UndoFollows ==
    ASSUME UndoInv, InvitationsInv', ControlMoves, DirectoryMoves,
           \A q \in Requests : accepts'[q] # accepts[q] /\ accepts'[q].pc \in HoldingSteps => ReliesOn(accepts[q])'
    PROVE  UndoInv'
<1>1. ASSUME NEW q \in Requests, accepts'[q] = accepts[q], accepts[q].pc \in HoldingSteps
      PROVE  ReliesOn(accepts[q])'
    <2>1. accepts[q] \in AcceptType
        BY DEF UndoInv, InvitationsInv
    <2>2. PICK r \in AcceptType : r = accepts[q]
        BY <2>1
    <2>3. r # Idle /\ ReliesOn(r)
        BY <1>1, <2>2 DEF UndoInv, HoldingSteps, Idle
    <2>4. ReliesOn(r)'
        BY <2>3, ReliesStay
    <2> QED BY <1>1, <2>2, <2>4 DEF ReliesOn
<1>2. ClaimsAreSingle' /\ AcceptedWereClaimed' /\ AcceptedAreKnown'
    BY AcceptedStayKnown DEF ControlMoves
<1> QED BY <1>1, <1>2 DEF UndoInv

LEMMA StepUndo == UndoInv /\ [InvitationNext]_invitationVars => UndoInv'
<1> SUFFICES ASSUME UndoInv, [InvitationNext]_invitationVars PROVE UndoInv'
    OBVIOUS
<1>1. InvitationsInv /\ InvitationsInv' /\ ControlInv /\ TypeOK /\ accepts \in [Requests -> AcceptType]
    BY StepInvitations DEF UndoInv, InvitationsInv
<1>2. UNCHANGED enrollmentVars => DirectoryMoves
    BY DEF enrollmentVars, DirectoryMoves
<1>3. CASE InvitationStep
    <2>1. UNCHANGED <<enrollmentVars, accepts>>
        BY <1>3 DEF InvitationStep, Lapse, Revoke, Decline, Create, List
    <2>2. ControlMoves
        <3>1. OutcomesKept
            BY <1>1, <1>3, ControlStep DEF InvitationNext
        <3>2. ASSUME NEW i \in Invitations, Lapse(i) PROVE ControlMoves
            BY <3>2, StillMoves DEF Lapse
        <3>3. ASSUME NEW i \in Invitations, NEW a \in Members, Revoke(a, i) PROVE ControlMoves
            <4>1. /\ invitations[i].status = "pending" /\ invitations'[i].status = "revoked"
                  /\ \A j \in Invitations \ {i} : invitations'[j] = invitations[j]
                  /\ invitations[i].claimant \in Members \cup {Null}
                BY <1>1, <3>3 DEF Revoke, Open, Ends, ControlInv, InvitationType
            <4>2. \/ invitations[i].claimant = Null /\ memberships' = memberships
                  \/ \E m \in Members : invitations[i].claimant \in {Null, m} /\ memberships' = RemovesSuspended(m)
                BY <3>3, <4>1 DEF Revoke
            <4> QED BY <3>1, <4>1, <4>2, EndMoves
        <3>4. ASSUME NEW i \in Invitations, NEW m \in Members, Decline(m, i) PROVE ControlMoves
            <4>1. /\ invitations[i].status = "pending" /\ invitations'[i].status = "declined"
                  /\ \A j \in Invitations \ {i} : invitations'[j] = invitations[j]
                BY <1>1, <3>4 DEF Decline, Open, ControlInv, InvitationType
            <4>2. invitations[i].claimant \in {Null, m} /\ memberships' = RemovesSuspended(m)
                BY <3>4 DEF Decline
            <4> QED BY <3>1, <4>1, <4>2, EndMoves
        <3>5. ASSUME NEW a \in Members, List(a) PROVE ControlMoves
            BY <3>5, ExpireMoves DEF List
        <3> QED BY <1>3, <3>2, <3>3, <3>4, <3>5, CreateMoves DEF InvitationStep
    <2>3. DirectoryMoves
        BY <1>2, <2>1
    <2> QED BY <1>1, <2>1, <2>2, <2>3, UndoFollows
<1>4. CASE AcceptStep
    <2>1. PICK q \in Requests :
              \/ \E m \in Members, i \in Invitations : Claim(q, m, i)
              \/ ReadDirectory(q) \/ InsertMember(q) \/ Activate(q) \/ EnterAgain(q)
              \/ Preview(q) \/ RereadEntry(q) \/ Tombstone(q) \/ Abandon(q)
        BY <1>4 DEF AcceptStep
    <2>2. \A p \in Requests \ {q} : accepts'[p] = accepts[p]
        BY <1>1, <2>1 DEF Claim, Continues, ReadDirectory, InsertMember, Activate, EnterAgain, Preview,
                          RereadEntry, Tombstone, Abandon
    <2>3. CASE \E m \in Members, i \in Invitations : Claim(q, m, i)
        <3>1. PICK m \in Members, i \in Invitations : Claim(q, m, i)
            BY <2>3
        <3>2. ControlMoves
            BY <3>1, ClaimMoves
        <3>3. DirectoryMoves
            BY <1>2, <3>1 DEF Claim
        <3>4. accepts'[q].pc \in HoldingSteps => ReliesOn(accepts[q])'
            BY <3>1, ClaimRelies
        <3> QED BY <1>1, <2>2, <3>2, <3>3, <3>4, UndoFollows
    <2>4. CASE \/ ReadDirectory(q) \/ InsertMember(q) \/ Activate(q) \/ EnterAgain(q)
               \/ Preview(q) \/ RereadEntry(q) \/ Tombstone(q) \/ Abandon(q)
        <3>1. ControlMoves
            <4>1. CASE Preview(q)
                <5>1. accepts[q].invitation \in Invitations
                    BY <1>1, <4>1 DEF AcceptType, Preview, Idle
                <5> QED BY <4>1, <5>1, ExpireMoves DEF Preview
            <4>2. CASE ReadDirectory(q) \/ InsertMember(q) \/ EnterAgain(q) \/ RereadEntry(q) \/ Tombstone(q) \/ Abandon(q)
                <5>1. UNCHANGED control
                    BY <4>2 DEF ReadDirectory, InsertMember, EnterAgain, RereadEntry, Tombstone, Abandon
                <5> QED BY <5>1, StillMoves
            <4> QED BY <2>4, <4>1, <4>2, ActivateMoves
        <3>2. DirectoryMoves
            <4>1. CASE \E a : \E m \in Members, value \in Member : PutMember(a, m, value)
                BY <1>1, <4>1, PutMoves
            <4>2. CASE InsertMember(q) \/ Tombstone(q)
                <5>1. accepts[q].member \in Members /\ accepts[q].invitation \in Invitations
                    BY <1>1, <4>2 DEF AcceptType, InsertMember, Tombstone, Idle
                <5>2. \A state \in {"active", "removed"} :
                          [role |-> invitations[accepts[q].invitation].role, state |-> state] \in Member
                    BY <1>1, <5>1 DEF ControlInv, InvitationType, Member, Memberships
                <5> QED BY <1>2, <4>1, <4>2, <5>1, <5>2 DEF InsertMember, Tombstone
            <4>3. CASE ~InsertMember(q) /\ ~Tombstone(q)
                BY <1>2, <2>4, <4>3 DEF ReadDirectory, Activate, EnterAgain, Preview, RereadEntry, Abandon
            <4> QED BY <4>2, <4>3
        <3>3. accepts'[q].pc \in HoldingSteps => ReliesOn(accepts[q])'
            BY <2>4, <3>1, <3>2, OwnRelies
        <3> QED BY <1>1, <2>2, <3>1, <3>2, <3>3, UndoFollows
    <2> QED BY <2>1, <2>3, <2>4
<1>5. CASE DirectoryStep
    <2>1. accepts' = accepts
        BY <1>5 DEF DirectoryStep, ChangeDirectory, Sync, LoseSync
    <2>2. ControlMoves /\ DirectoryMoves
        <3>1. ASSUME NEW a \in Members, NEW m \in Members, NEW value \in Member, ChangeDirectory(a, m, value)
              PROVE  ControlMoves /\ DirectoryMoves
            <4>1. UNCHANGED control /\ (PutMember(a, m, value) \/ UNCHANGED enrollmentVars)
                BY <3>1 DEF ChangeDirectory
            <4> QED BY <1>1, <1>2, <4>1, StillMoves, PutMoves
        <3>2. ASSUME NEW s \in syncs, Sync(s) PROVE ControlMoves /\ DirectoryMoves
            BY <1>2, <3>2, SyncMoves DEF Sync
        <3>3. ASSUME NEW s \in syncs, LoseSync(s) PROVE ControlMoves /\ DirectoryMoves
            BY <1>2, <3>3, StillMoves DEF LoseSync
        <3> QED BY <1>5, <3>1, <3>2, <3>3 DEF DirectoryStep
    <2> QED BY <1>1, <2>1, <2>2, UndoFollows
<1>6. CASE UNCHANGED invitationVars
    <2>1. UNCHANGED <<enrollmentVars, control, accepts>>
        BY <1>6 DEF invitationVars, control
    <2>2. ControlMoves /\ DirectoryMoves
        BY <1>2, <2>1, StillMoves
    <2> QED BY <1>1, <2>1, <2>2, UndoFollows
<1> QED BY <1>3, <1>4, <1>5, <1>6 DEF InvitationNext

LEMMA InitUndo == InvitationInit => UndoInv
<1> SUFFICES ASSUME InvitationInit PROVE UndoInv
    OBVIOUS
<1>1. InvitationsInv
    BY InitInvitations
<1>2. ClaimsAreSingle /\ AcceptedWereClaimed
    BY DEF InvitationInit, NotCreated, ClaimsAreSingle, AcceptedWereClaimed
<1>3. AcceptedAreKnown
    <2>1. Bootstrap \in Known(directory)
        BY EnrollmentAssumption, NullAssumption DEF InvitationInit, EnrollmentInit, Known, Member, Roles, Memberships
    <2> QED BY <2>1 DEF InvitationInit, NotCreated, AcceptedAreKnown, AcceptedBy
<1>4. \A q \in Requests : accepts[q].pc \notin HoldingSteps
    BY DEF InvitationInit, Idle, HoldingSteps
<1> QED BY <1>1, <1>2, <1>3, <1>4 DEF UndoInv

(* An entry is taken back only from an account whose membership is over:     *)
(* whatever a failed acceptance undoes gave nobody access, for any number of *)
(* acceptances, invitations and directory changes in between.                *)
THEOREM UndoingSparesMembers == InvitationSpec => CleanupSparesMembers
<1>1. UndoInv => \A q \in Requests : accepts[q].pc = "tombstone" => ~Linked(accepts[q].member)
    BY DEF UndoInv, HoldingSteps, ReliesOn, Linked
<1>2. UndoInv /\ [InvitationNext]_invitationVars =>
          [\A q \in Requests :
              accepts[q].pc = "tombstone" /\ directory' # directory /\ accepts'[q] = Idle
                  => ~Linked(accepts[q].member)]_invitationVars
    BY <1>1
<1> QED BY <1>2, InitUndo, StepUndo, PTL DEF InvitationSpec, CleanupSparesMembers

---------------------------------------------------------------------------
(***************************************************************************)
(* Sockets                                                                 *)
(***************************************************************************)

(* A step of the connection after its first question was answered. *)
SpeakingSteps == {"challenged", "prove"} \cup AuthenticatedSteps

(* What a connection holds at each of its steps. *)
Sound(r) ==
    /\ r.step \in {"idle", "resolving", "closed"} => ~r.lease
    /\ r.step \in {"idle", "resolving", "begin", "challenged", "prove", "select", "closed"} => ~r.store
    /\ r.step = "begin" => r.lease
    /\ r.step \in SpeakingSteps /\ ~r.aborted => r.lease
    /\ r.step \notin {"idle", "closed"} => r.binding \in Bindings
    /\ r.answered => r.step \in AskingSteps

(* It may go on, or was told by the owner that it may. *)
Speaks(r) == Usable(r) \/ (r.step = "begin" /\ r.answered /\ ~r.aborted /\ ~r.stopped)

Holders == {c \in Connections : conn[c].lease}
Stores == {c \in Connections : conn[c].store}

SocketsInv ==
    /\ EnrollmentInv
    /\ owner \in {"idle", "publishing", "failing", "closed"}
    /\ lost \in SUBSET Bindings /\ accepting \in BOOLEAN
    /\ owner # "publishing" => lost = {}
    /\ conn \in [Connections -> Connection]
    /\ \A c \in Connections : Sound(conn[c]) /\ (conn[c].lease /\ ~accepting => conn[c].aborted)
    /\ references = Cardinality(Holders) + Cardinality(Stores)
    /\ owner \in {"idle", "publishing"} =>
           \A c \in Connections : Speaks(conn[c]) => Stands(conn[c].binding) \/ conn[c].binding \in lost

LEMMA HoldersFinite == IsFiniteSet(Holders) /\ IsFiniteSet(Stores)
BY ConnectionsAssumption, FS_Subset DEF Holders, Stores

(* One connection moves: the leases of all change by what it holds.          *)
LEMMA LeasesMove ==
    ASSUME conn \in [Connections -> Connection], NEW c \in Connections, NEW r \in Connection, Put(c, r)
    PROVE  Cardinality(Holders') + Cardinality(Stores') =
               Cardinality(Holders) + Cardinality(Stores) - Cost(conn[c]) + Cost(r)
<1>1. conn' = [conn EXCEPT ![c] = r] /\ conn'[c] = r
    BY DEF Put
<1>2. Cardinality(Holders) \in Nat /\ Cardinality(Stores) \in Nat
    BY HoldersFinite, FS_CardinalityType
<1>3. Cardinality(Holders') =
          Cardinality(Holders) - (IF conn[c].lease THEN 1 ELSE 0) + (IF r.lease THEN 1 ELSE 0)
    <2>1. Holders' = IF r.lease THEN Holders \cup {c} ELSE Holders \ {c}
        BY <1>1 DEF Holders
    <2>2. c \in Holders <=> conn[c].lease
        BY DEF Holders
    <2>3. /\ Cardinality(Holders \cup {c}) =
                 IF c \in Holders THEN Cardinality(Holders) ELSE Cardinality(Holders) + 1
          /\ Cardinality(Holders \ {c}) =
                 IF c \in Holders THEN Cardinality(Holders) - 1 ELSE Cardinality(Holders)
        BY HoldersFinite, FS_AddElement, FS_RemoveElement
    <2> QED BY <1>2, <2>1, <2>2, <2>3
<1>4. Cardinality(Stores') =
          Cardinality(Stores) - (IF conn[c].store THEN 1 ELSE 0) + (IF r.store THEN 1 ELSE 0)
    <2>1. Stores' = IF r.store THEN Stores \cup {c} ELSE Stores \ {c}
        BY <1>1 DEF Stores
    <2>2. c \in Stores <=> conn[c].store
        BY DEF Stores
    <2>3. /\ Cardinality(Stores \cup {c}) =
                 IF c \in Stores THEN Cardinality(Stores) ELSE Cardinality(Stores) + 1
          /\ Cardinality(Stores \ {c}) =
                 IF c \in Stores THEN Cardinality(Stores) - 1 ELSE Cardinality(Stores)
        BY HoldersFinite, FS_AddElement, FS_RemoveElement
    <2> QED BY <1>2, <2>1, <2>2, <2>3
<1> QED BY <1>2, <1>3, <1>4 DEF Cost

(* What a connection may become in a turn of its own.                        *)
Follows(s, r) ==
    /\ r \in Connection /\ Sound(r)
    /\ r.lease /\ ~accepting => r.aborted
    /\ Speaks(r) => Speaks(s) /\ r.binding = s.binding

(* A turn of one connection that accounts for its leases keeps the invariant.*)
LEMMA ConnectionMoves ==
    ASSUME SocketsInv, NEW c \in Connections, NEW r, Put(c, r), SocketOnly, UNCHANGED accepting,
           r \in Connection, Sound(r), r.lease /\ ~accepting => r.aborted,
           references' = references - Cost(conn[c]) + Cost(r),
           owner \in {"idle", "publishing"} /\ Speaks(r) => Stands(r.binding) \/ r.binding \in lost
    PROVE  SocketsInv'
<1>1. conn' = [conn EXCEPT ![c] = r] /\ conn \in [Connections -> Connection]
    BY DEF Put, SocketsInv
<1>2. \A d \in Connections : conn'[d] = IF d = c THEN r ELSE conn[d]
    BY <1>1
<1>3. conn' \in [Connections -> Connection]
    BY <1>1
<1>4. EnrollmentInv' /\ UNCHANGED <<owner, lost, accepting, bindings, directory>>
    BY StepInv DEF SocketOnly, SocketsInv, enrollmentVars
<1>5. references' = Cardinality(Holders') + Cardinality(Stores')
    <2>1. Cardinality(Holders) \in Nat /\ Cardinality(Stores) \in Nat /\ Cost(conn[c]) \in Nat /\ Cost(r) \in Nat
        BY HoldersFinite, FS_CardinalityType DEF Cost
    <2> QED BY <1>1, <2>1, LeasesMove DEF SocketsInv
<1>6. \A d \in Connections : Sound(conn'[d]) /\ (conn'[d].lease /\ ~accepting' => conn'[d].aborted)
    BY <1>2, <1>4 DEF SocketsInv
<1>7. ASSUME NEW d \in Connections, Stands(conn'[d].binding) PROVE Stands(conn[d].binding)'
    <2>1. Active(directory)' = Active(directory) /\ bindings' = bindings
        BY <1>4 DEF Active, HasState, Known
    <2> QED BY <1>7, <2>1 DEF Stands
<1>8. owner' \in {"idle", "publishing"} =>
           \A d \in Connections : (Speaks(conn[d]) => Stands(conn[d].binding) \/ conn[d].binding \in lost)'
    <2> SUFFICES ASSUME owner \in {"idle", "publishing"}, NEW d \in Connections, Speaks(conn'[d])
                 PROVE  Stands(conn[d].binding)' \/ conn'[d].binding \in lost
        BY <1>4
    <2>1. CASE d = c
        BY <1>2, <1>7, <2>1
    <2>2. CASE d # c
        BY <1>2, <1>7, <2>2 DEF SocketsInv
    <2> QED BY <2>1, <2>2
<1> QED BY <1>3, <1>4, <1>5, <1>6, <1>8 DEF SocketsInv, Holders, Stores

LEMMA ConnectionFollows ==
    ASSUME SocketsInv, NEW c \in Connections, NEW r, Put(c, r), SocketOnly, UNCHANGED accepting,
           Follows(conn[c], r), references' = references - Cost(conn[c]) + Cost(r)
    PROVE  SocketsInv'
BY ConnectionMoves DEF Follows, SocketsInv

(* A connection that fails keeps its leases, or gives back the first one.    *)
LEMMA FailedFollows ==
    ASSUME NEW s \in Connection, Sound(s), s.lease /\ ~accepting => s.aborted, s.step \notin {"idle", "closed"}
    PROVE  /\ Follows(s, Failed(s)) /\ Cost(Failed(s)) = Cost(s)
           /\ s.lease => /\ Follows(s, [Failed(s) EXCEPT !.lease = FALSE])
                         /\ Cost([Failed(s) EXCEPT !.lease = FALSE]) = Cost(s) - 1
           /\ s.step = "select" =>
                  /\ Follows(s, [Failed(s) EXCEPT !.store = TRUE])
                  /\ Cost([Failed(s) EXCEPT !.store = TRUE]) = Cost(s) + 1
<1>1. /\ Failed(s) \in Connection /\ [Failed(s) EXCEPT !.lease = FALSE] \in Connection
      /\ [Failed(s) EXCEPT !.store = TRUE] \in Connection
    BY DEF Failed, Connection, Steps
<1>2. /\ Sound(Failed(s)) /\ Sound([Failed(s) EXCEPT !.lease = FALSE])
      /\ Sound([Failed(s) EXCEPT !.store = TRUE])
    BY DEF Failed, Connection, Sound, SpeakingSteps, AuthenticatedSteps
<1>3. /\ ~Speaks(Failed(s)) /\ ~Speaks([Failed(s) EXCEPT !.lease = FALSE])
      /\ ~Speaks([Failed(s) EXCEPT !.store = TRUE])
    BY DEF Failed, Connection, Speaks, Usable
<1>4. /\ Failed(s).lease = s.lease /\ Failed(s).aborted = s.aborted
      /\ ~[Failed(s) EXCEPT !.lease = FALSE].lease
      /\ [Failed(s) EXCEPT !.store = TRUE].lease = s.lease /\ [Failed(s) EXCEPT !.store = TRUE].aborted = s.aborted
    BY DEF Failed, Connection
<1>5. /\ Cost(Failed(s)) = Cost(s) /\ (s.lease => Cost([Failed(s) EXCEPT !.lease = FALSE]) = Cost(s) - 1)
      /\ s.step = "select" => Cost([Failed(s) EXCEPT !.store = TRUE]) = Cost(s) + 1
    BY DEF Failed, Connection, Cost, Sound
<1> QED BY <1>1, <1>2, <1>3, <1>4, <1>5 DEF Follows

(* What a connection is when it goes on to another step.                     *)
LEMMA GoesOn ==
    ASSUME NEW s \in Connection, Sound(s), s.lease /\ ~accepting => s.aborted, s.step \notin {"idle", "closed"},
           NEW next, NEW r, NEW answered \in BOOLEAN,
           r = [s EXCEPT !.step = next, !.answered = answered],
           \/ s.step = "begin" /\ s.answered /\ next = "challenged" /\ ~answered
           \/ s.step = "challenged" /\ next = "prove" /\ answered = s.answered
           \/ s.step = "prove" /\ next = "select" /\ ~answered
           \/ s.step \in {"verify", "reply"} /\ next = "open" /\ ~answered
           \/ s.step = "open" /\ next = "request" /\ answered = s.answered
           \/ s.step = "request" /\ next = "operate" /\ ~answered
           \/ s.step = "operate" /\ next = "reply" /\ ~answered
    PROVE  Follows(s, r) /\ Cost(r) = Cost(s)
<1>1. r \in Connection /\ r.lease = s.lease /\ r.store = s.store /\ r.aborted = s.aborted
      /\ r.stopped = s.stopped /\ r.binding = s.binding /\ r.step = next /\ r.answered = answered
    BY DEF Connection, Steps
<1>2. Sound(r)
    BY <1>1 DEF Sound, SpeakingSteps, AuthenticatedSteps, AskingSteps
<1>3. Speaks(r) => Speaks(s)
    BY <1>1 DEF Speaks, Usable, AuthenticatedSteps
<1> QED BY <1>1, <1>2, <1>3 DEF Follows, Cost

(* The turns of a connection that take nothing from an answer of the owner.  *)
LEMMA TurnStep ==
    ASSUME SocketsInv, NEW c \in Connections,
           \/ \E b \in Bindings : Hello(c, b)
           \/ Resolve(c) \/ OwnerRefuses(c) \/ Challenge(c) \/ Prove(c) \/ Adopt(c) \/ Select(c)
           \/ Admit(c) \/ Request(c) \/ Perform(c) \/ Operate(c) \/ Reply(c) \/ Stop(c) \/ Cleanup(c)
           \/ ProviderReleases(c)
    PROVE  SocketsInv'
<1> DEFINE s == conn[c]
<1>0. /\ s \in Connection /\ Sound(s) /\ (s.lease /\ ~accepting => s.aborted)
      /\ references \in Int /\ Cost(s) \in Int
    <2>1. Cardinality(Holders) \in Nat /\ Cardinality(Stores) \in Nat
        BY HoldersFinite, FS_CardinalityType
    <2> QED BY <2>1 DEF SocketsInv, Cost
<1>same. ASSUME NEW r, Put(c, r), SocketOnly, UNCHANGED <<accepting, references>>, Follows(s, r), Cost(r) = Cost(s)
         PROVE  SocketsInv'
    <2>1. references' = references - Cost(s) + Cost(r)
        BY <1>0, <1>same
    <2> QED BY <1>same, <2>1, ConnectionFollows
<1>fail. ASSUME Put(c, Failed(s)), SocketOnly, UNCHANGED <<accepting, references>>, s.step \notin {"idle", "closed"}
         PROVE  SocketsInv'
    BY <1>0, <1>same, <1>fail, FailedFollows
<1>loses. ASSUME Put(c, [Failed(s) EXCEPT !.lease = FALSE]), SocketOnly, UNCHANGED accepting,
                 references' = references - 1, s.step = "begin"
          PROVE  SocketsInv'
    <2>1. s.lease
        BY <1>0, <1>loses DEF Sound
    <2>0. Cost([Failed(s) EXCEPT !.lease = FALSE]) = Cost(s) - 1
        BY <1>0, <1>loses, <2>1, FailedFollows
    <2>2. references' = references - Cost(s) + Cost([Failed(s) EXCEPT !.lease = FALSE])
        BY <1>0, <1>loses, <2>0
    <2> QED BY <1>0, <1>loses, <2>1, <2>2, FailedFollows, ConnectionFollows
<1>goes. ASSUME NEW next, Put(c, [s EXCEPT !.step = next, !.answered = FALSE]), SocketOnly,
                UNCHANGED <<accepting, references>>,
                \/ s.step = "begin" /\ s.answered /\ next = "challenged"
                \/ s.step = "prove" /\ next = "select"
                \/ s.step \in {"verify", "reply"} /\ next = "open"
                \/ s.step = "request" /\ next = "operate"
                \/ s.step = "operate" /\ next = "reply"
         PROVE  SocketsInv'
    BY <1>0, <1>same, <1>goes, GoesOn
<1>keeps. ASSUME NEW next, Put(c, [s EXCEPT !.step = next]), SocketOnly, UNCHANGED <<accepting, references>>,
                \/ s.step = "challenged" /\ next = "prove"
                \/ s.step = "open" /\ next = "request"
                \/ s.step = "operate" /\ next = "reply"
                \/ s.step = "reply" /\ next = "open"
         PROVE  SocketsInv'
    <2>1. s.answered = FALSE /\ s.answered \in BOOLEAN
        BY <1>0, <1>keeps DEF Sound, AskingSteps, Connection
    <2>2. [s EXCEPT !.step = next] = [s EXCEPT !.step = next, !.answered = FALSE]
        BY <1>0, <2>1 DEF Connection
    <2> QED BY <1>0, <1>same, <1>keeps, <2>1, <2>2, GoesOn
<1>1. ASSUME NEW b \in Bindings, Hello(c, b) PROVE SocketsInv'
    <2> DEFINE r == [s EXCEPT !.step = "resolving", !.binding = b]
    <2>1. s.step = "idle" /\ Put(c, r) /\ SocketOnly /\ UNCHANGED <<accepting, references>>
        BY <1>1 DEF Hello
    <2>2. Follows(s, r) /\ Cost(r) = Cost(s)
        BY <1>0, <2>1 DEF Follows, Connection, Steps, Sound, Speaks, Usable, SpeakingSteps,
                          AuthenticatedSteps, AskingSteps, Cost
    <2> HIDE DEF r
    <2> QED BY <1>same, <2>1, <2>2
<1>2. CASE Resolve(c)
    <2>0. s.step = "resolving" /\ SocketOnly /\ UNCHANGED accepting
        BY <1>2 DEF Resolve
    <2>1. CASE Put(c, Failed(s)) /\ UNCHANGED references
        BY <1>fail, <2>0, <2>1
    <2> DEFINE r == [s EXCEPT !.step = "begin", !.lease = TRUE, !.aborted = s.stopped \/ ~accepting]
    <2>2. CASE Put(c, r) /\ references' = references + 1
        <3>1. r \in Connection /\ r.step = "begin" /\ r.lease /\ ~r.answered /\ r.binding \in Bindings /\ ~r.store
              /\ (~accepting => r.aborted) /\ ~s.lease /\ ~s.store
            BY <1>0, <2>0 DEF Connection, Steps, Sound, AskingSteps, SocketsInv
        <3> HIDE DEF r
        <3>2. Follows(s, r)
            BY <3>1 DEF Follows, Sound, Speaks, Usable, SpeakingSteps, AuthenticatedSteps
        <3>3. Cost(r) = 1 /\ Cost(s) = 0
            BY <3>1 DEF Cost
        <3> QED BY <1>0, <2>0, <2>2, <3>2, <3>3, ConnectionFollows
    <2> QED BY <1>2, <2>1, <2>2 DEF Resolve
<1>3. CASE OwnerRefuses(c)
    <2>0. s.step \in AskingSteps /\ SocketOnly /\ UNCHANGED accepting
        BY <1>3 DEF OwnerRefuses
    <2>1. CASE s.step = "begin"
        BY <1>3, <1>loses, <2>0, <2>1 DEF OwnerRefuses
    <2>2. CASE s.step # "begin"
        BY <1>3, <1>fail, <2>0, <2>2 DEF OwnerRefuses, AskingSteps
    <2> QED BY <2>1, <2>2
<1>4. CASE Challenge(c)
    BY <1>4, <1>goes, <1>loses DEF Challenge
<1>5. CASE Prove(c) \/ Request(c) \/ Operate(c) \/ Reply(c)
    BY <1>5, <1>keeps, <1>fail DEF Prove, Request, Operate, Reply
<1>6. CASE Adopt(c) \/ Admit(c) \/ Perform(c)
    BY <1>6, <1>goes, <1>fail DEF Adopt, Admit, Perform
<1>7. CASE Select(c)
    <2>0. s.step = "select" /\ SocketOnly /\ UNCHANGED accepting
        BY <1>7 DEF Select
    <2>1. CASE owner = "closed"
        BY <1>7, <1>fail, <2>0, <2>1 DEF Select
    <2>2. CASE Put(c, [Failed(s) EXCEPT !.store = TRUE]) /\ references' = references + 1
        <3>0. Cost([Failed(s) EXCEPT !.store = TRUE]) = Cost(s) + 1
            BY <1>0, <2>0, FailedFollows
        <3>1. references' = references - Cost(s) + Cost([Failed(s) EXCEPT !.store = TRUE])
            BY <1>0, <2>2, <3>0
        <3> QED BY <1>0, <2>0, <2>2, <3>1, FailedFollows, ConnectionFollows
    <2> DEFINE r == [s EXCEPT !.step = "verify", !.store = TRUE]
    <2>3. CASE Put(c, r) /\ references' = references + 1
        <3>1. /\ r \in Connection /\ r.step = "verify" /\ r.lease = s.lease /\ ~s.store /\ r.store
              /\ r.answered = s.answered /\ ~s.answered
              /\ r.aborted = s.aborted /\ r.stopped = s.stopped /\ r.binding = s.binding
            BY <1>0, <2>0 DEF Connection, Steps, Sound, AskingSteps
        <3> HIDE DEF r
        <3>2. Follows(s, r)
            BY <1>0, <2>0, <3>1 DEF Follows, Sound, Speaks, Usable, SpeakingSteps, AuthenticatedSteps
        <3>3. Cost(r) = Cost(s) + 1
            BY <3>1 DEF Cost
        <3> QED BY <1>0, <2>0, <2>3, <3>2, <3>3, ConnectionFollows
    <2> QED BY <1>7, <2>1, <2>2, <2>3 DEF Select
<1>8. CASE Stop(c)
    <2> DEFINE r == [s EXCEPT !.stopped = TRUE, !.aborted = @ \/ s.lease]
    <2>1. Put(c, r) /\ SocketOnly /\ UNCHANGED <<accepting, references>>
        BY <1>8 DEF Stop
    <2>2. Follows(s, r) /\ Cost(r) = Cost(s)
        BY <1>0 DEF Follows, Connection, Sound, Speaks, Usable, Cost
    <2> HIDE DEF r
    <2> QED BY <1>same, <2>1, <2>2
<1>9. CASE Cleanup(c)
    <2> DEFINE r == [Fresh EXCEPT !.step = "closed", !.stopped = TRUE]
    <2>1. Put(c, r) /\ SocketOnly /\ UNCHANGED accepting /\ references' = references - Cost(s)
        BY <1>9 DEF Cleanup, GivesBack
    <2>0. r \in Connection /\ r.step = "closed" /\ ~r.lease /\ ~r.store /\ ~r.answered /\ r.stopped
        BY DEF Fresh, Connection, Steps
    <2>2. Follows(s, r) /\ Cost(r) = 0
        BY <2>0 DEF Follows, Sound, Speaks, Usable, SpeakingSteps, AuthenticatedSteps, Cost
    <2> HIDE DEF r
    <2>3. references' = references - Cost(s) + Cost(r)
        BY <1>0, <2>1, <2>2
    <2> QED BY <2>1, <2>2, <2>3, ConnectionFollows
<1>10. CASE ProviderReleases(c)
    <2> DEFINE r == [s EXCEPT !.lease = FALSE]
    <2>1. /\ Put(c, r) /\ SocketOnly /\ UNCHANGED accepting /\ references' = references - 1
          /\ s.lease /\ ~accepting /\ s.step # "begin"
        BY <1>10 DEF ProviderReleases, RestingSteps
    <2>0. /\ r \in Connection /\ r.step = s.step /\ ~r.lease /\ r.store = s.store /\ r.answered = s.answered
          /\ r.aborted /\ r.binding = s.binding
        BY <1>0, <2>1 DEF Connection
    <2>2. Follows(s, r) /\ Cost(r) = Cost(s) - 1
        BY <1>0, <2>0, <2>1 DEF Follows, Sound, Speaks, Usable, Cost
    <2> HIDE DEF r
    <2>3. references' = references - Cost(s) + Cost(r)
        BY <1>0, <2>1, <2>2
    <2> QED BY <2>1, <2>2, <2>3, ConnectionFollows
<1> QED BY <1>1, <1>2, <1>3, <1>4, <1>5, <1>6, <1>7, <1>8, <1>9, <1>10

LEMMA AnswerStep ==
    ASSUME SocketsInv, NEW c \in Connections, OwnerAnswers(c)
    PROVE  SocketsInv'
<1> DEFINE s == conn[c]
           r == [s EXCEPT !.answered = TRUE]
<1>0. s \in Connection /\ Sound(s) /\ (s.lease /\ ~accepting => s.aborted)
    BY DEF SocketsInv
<1>1. Put(c, r) /\ SocketOnly /\ UNCHANGED <<accepting, references>> /\ s.step \in AskingSteps
      /\ Authorized(s.binding, now)
    BY DEF OwnerAnswers
<1>2. /\ r \in Connection /\ r.step = s.step /\ r.lease = s.lease /\ r.store = s.store /\ r.aborted = s.aborted
      /\ r.binding = s.binding
    BY <1>0 DEF Connection
<1>3. Sound(r) /\ Cost(r) = Cost(s)
    BY <1>0, <1>1, <1>2 DEF Sound, Cost
<1>4. references' = references - Cost(s) + Cost(r)
    <2>1. Cardinality(Holders) \in Nat /\ Cardinality(Stores) \in Nat /\ Cost(s) \in Nat
        BY HoldersFinite, FS_CardinalityType DEF Cost
    <2> QED BY <1>1, <1>3, <2>1 DEF SocketsInv
<1>5. Stands(r.binding)
    BY <1>1, <1>2 DEF Authorized, Stands
<1> HIDE DEF r
<1> QED BY <1>0, <1>1, <1>2, <1>3, <1>4, <1>5, ConnectionMoves

(* A connection that is told to stop keeps everything else.                  *)
Heeds(s, r) ==
    /\ r \in Connection
    /\ r.step = s.step /\ r.binding = s.binding /\ r.answered = s.answered
    /\ r.lease = s.lease /\ r.store = s.store
    /\ s.aborted => r.aborted
    /\ s.stopped => r.stopped

LEMMA AllHeed ==
    ASSUME SocketsInv, UNCHANGED <<enrollmentVars, references>>,
           conn' \in [Connections -> Connection], \A c \in Connections : Heeds(conn[c], conn'[c]),
           owner' \in {"idle", "publishing", "failing", "closed"}, lost' \in SUBSET Bindings, accepting' \in BOOLEAN,
           owner' # "publishing" => lost' = {},
           \A c \in Connections : conn'[c].lease /\ ~accepting' => conn'[c].aborted,
           owner' \in {"idle", "publishing"} =>
               \A c \in Connections : Speaks(conn'[c]) => Stands(conn'[c].binding) \/ conn'[c].binding \in lost'
    PROVE  SocketsInv'
<1>1. EnrollmentInv' /\ bindings' = bindings /\ directory' = directory
    BY StepInv DEF SocketsInv, enrollmentVars
<1>2. Holders' = Holders /\ Stores' = Stores
    BY DEF Heeds, Holders, Stores
<1>3. \A c \in Connections : Sound(conn'[c])
    BY DEF SocketsInv, Heeds, Sound
<1>4. ASSUME NEW c \in Connections, Stands(conn'[c].binding) PROVE Stands(conn[c].binding)'
    <2>1. Active(directory)' = Active(directory)
        BY <1>1 DEF Active, HasState, Known
    <2> QED BY <1>1, <1>4, <2>1 DEF Stands
<1> QED BY <1>1, <1>2, <1>3, <1>4 DEF SocketsInv

(* Whoever is meant by an announcement no longer speaks after it.            *)
LEMMA AnnouncedFacts ==
    ASSUME SocketsInv, NEW who \in SUBSET Bindings, Announced(who)
    PROVE  /\ conn' \in [Connections -> Connection]
           /\ \A c \in Connections :
                  /\ Heeds(conn[c], conn'[c])
                  /\ Speaks(conn'[c]) => Speaks(conn[c]) /\ conn[c].binding \notin who
<1>1. ASSUME NEW c \in Connections
      PROVE  /\ Heeds(conn[c], conn'[c])
             /\ Speaks(conn'[c]) => Speaks(conn[c]) /\ conn[c].binding \notin who
    <2> DEFINE s == conn[c]
               r == conn'[c]
    <2>0. s \in Connection /\ Sound(s)
        BY DEF SocketsInv
    <2>1. r = [s EXCEPT !.aborted = @ \/ Hears(s, who),
                        !.stopped = @ \/ /\ s.step \in AuthenticatedSteps
                                         /\ s.binding \in who
                                         /\ s.lease \/ s.store]
        BY DEF Announced
    <2>2. Hears(s, who) \in BOOLEAN
        BY DEF Hears
    <2>3. Heeds(s, r) /\ (Hears(s, who) => r.aborted)
        BY <2>0, <2>1, <2>2 DEF Heeds, Connection
    <2>4. Speaks(r) => Speaks(s) /\ s.binding \notin who
        BY <2>0, <2>3 DEF Heeds, Speaks, Usable, Hears, Sound, SpeakingSteps, AuthenticatedSteps
    <2> QED BY <2>3, <2>4
<1>2. conn' \in [Connections -> Connection]
    BY <1>1 DEF Announced, Heeds
<1> QED BY <1>1, <1>2

LEMMA AnnouncingStep ==
    ASSUME SocketsInv, Publish \/ Release \/ RuntimeCloses
    PROVE  SocketsInv'
<1>1. ASSUME NEW who \in SUBSET Bindings, Announced(who), UNCHANGED <<enrollmentVars, accepting, references>>,
             owner' \in {"idle", "closed"}, lost' = {},
             who = Bindings \/ (owner = "publishing" /\ who = lost)
      PROVE  SocketsInv'
    <2>1. conn' \in [Connections -> Connection] /\ \A c \in Connections : Heeds(conn[c], conn'[c])
        BY <1>1, AnnouncedFacts
    <2>2. \A c \in Connections : conn'[c].lease /\ ~accepting' => conn'[c].aborted
        BY <1>1, <2>1 DEF Heeds, SocketsInv
    <2>3. owner' \in {"idle", "publishing"} =>
              \A c \in Connections : Speaks(conn'[c]) => Stands(conn'[c].binding) \/ conn'[c].binding \in lost'
        <3> SUFFICES ASSUME owner' = "idle", NEW c \in Connections, Speaks(conn'[c])
                     PROVE  Stands(conn'[c].binding)
            BY <1>1
        <3>1. Speaks(conn[c]) /\ conn[c].binding \notin who /\ conn'[c].binding = conn[c].binding
            BY <1>1, <2>1, AnnouncedFacts DEF Heeds
        <3>2. conn[c].binding \in Bindings
            BY <3>1 DEF SocketsInv, Sound, Speaks, Usable, AuthenticatedSteps
        <3> QED BY <1>1, <3>1, <3>2 DEF SocketsInv
    <2>4. /\ accepting' \in BOOLEAN /\ owner' \in {"idle", "publishing", "failing", "closed"}
          /\ lost' \in SUBSET Bindings
          /\ owner' # "publishing" => lost' = {}
        BY <1>1 DEF SocketsInv
    <2> QED BY <1>1, <2>1, <2>2, <2>3, <2>4, AllHeed
<1>2. CASE Publish
    BY <1>1, <1>2 DEF Publish, SocketsInv
<1>3. CASE Release
    BY <1>1, <1>3 DEF Release
<1>4. CASE RuntimeCloses
    BY <1>1, <1>4 DEF RuntimeCloses
<1> QED BY <1>2, <1>3, <1>4

LEMMA ProviderClosesStep ==
    ASSUME SocketsInv, ProviderCloses
    PROVE  SocketsInv'
<1>1. ASSUME NEW c \in Connections
      PROVE  Heeds(conn[c], conn'[c]) /\ (conn'[c].lease => conn'[c].aborted)
    <2>1. conn[c] \in Connection
        BY DEF SocketsInv
    <2>2. conn'[c] = [conn[c] EXCEPT !.aborted = @ \/ conn[c].lease,
                                     !.stopped = @ \/ (conn[c].lease /\ conn[c].step \in AuthenticatedSteps)]
        BY DEF ProviderCloses
    <2> QED BY <2>1, <2>2 DEF Heeds, Connection
<1>2. conn' \in [Connections -> Connection]
    BY <1>1 DEF ProviderCloses, Heeds
<1>3. /\ UNCHANGED <<enrollmentVars, owner, lost, references>> /\ accepting' = FALSE
    BY DEF ProviderCloses, SocketOnly
<1>4. \A c \in Connections : Speaks(conn'[c]) => Speaks(conn[c]) /\ conn'[c].binding = conn[c].binding
    BY <1>1 DEF Heeds, Speaks, Usable
<1> QED BY <1>1, <1>2, <1>3, <1>4, AllHeed DEF SocketsInv

(* Whoever stood before an operation of the owner and does not after it is   *)
(* among those it must announce.                                             *)
LEMMA LossesAreAnnounced ==
    ASSUME EnrollmentInv, EnrollmentNext, NEW b \in Bindings, Stands(b)
    PROVE  Stands(b)' \/ b \in Loses
<1>0. TypeOK /\ BindingsReopen /\ bindings[b].phase = "confirmed" /\ bindings[b].member \in Active(directory)
    BY DEF EnrollmentInv, Stands
<1>1. CASE DirectoryNext
    <2>1. bindings' = bindings
        BY <1>0, <1>1, CommandStep
    <2>2. CASE bindings[b].member \in Active(directory')
        <3>1. bindings[b].member \in Active(directory)'
            BY <2>2 DEF Active, HasState, Known
        <3> QED BY <1>0, <2>1, <3>1 DEF Stands
    <2>3. CASE bindings[b].member \notin Active(directory')
        BY <1>0, <2>3 DEF Loses
    <2> QED BY <2>2, <2>3
<1>2. CASE BindingNext
    <2>1. Promise!Step(b)
        BY <1>0, <1>2, StagesStep
    <2>2. StageOf[bindings[b].phase] = "trusted" /\ bindings'[b] \in Binding
        BY <1>0, <1>2, BindingStep DEF StageOf, TypeOK
    <2>3. bindings'[b].phase \in {"confirmed", "revoked"}
          /\ (bindings'[b].phase = "confirmed" => bindings'[b].member = bindings[b].member)
        BY <2>1, <2>2 DEF Promise!Step, Promise!Turns, Promise!Keeps, StageOf, Binding, Phases
    <2>4. directory' = directory
        BY <1>2 DEF BindingNext, StartBinding, StartOnlyPrunes, ConfirmBinding, ApproveBinding,
                    RejectBinding, RevokeBinding, MemberActs, SetClock
    <2>5. Active(directory)' = Active(directory)
        BY <2>4 DEF Active, HasState, Known
    <2> QED BY <1>0, <2>3, <2>5 DEF Stands, Loses
<1> QED BY <1>1, <1>2 DEF EnrollmentNext

LEMMA CommitStep ==
    ASSUME SocketsInv, OwnerCommits \/ OwnerFails
    PROVE  SocketsInv'
<1>1. UNCHANGED <<accepting, conn, references>> /\ owner = "idle" /\ EnrollmentInv'
      /\ (EnrollmentNext \/ UNCHANGED enrollmentVars)
    BY StepInv DEF OwnerCommits, OwnerFails, SocketsInv, EnrollmentNext
<1>2. CASE OwnerFails
    <2>1. owner' = "failing" /\ lost' = lost
        BY <1>2 DEF OwnerFails
    <2> QED BY <1>1, <2>1 DEF SocketsInv, Holders, Stores
<1>3. CASE OwnerCommits
    <2>1. EnrollmentNext /\ lost' = Loses /\ owner' = IF Loses = {} THEN "idle" ELSE "publishing"
        BY <1>3 DEF OwnerCommits, EnrollmentNext
    <2>2. Loses \in SUBSET Bindings
        BY DEF Loses
    <2>3. \A c \in Connections : (Speaks(conn[c]) => Stands(conn[c].binding) \/ conn[c].binding \in lost)'
        <3> SUFFICES ASSUME NEW c \in Connections, Speaks(conn[c])
                     PROVE  Stands(conn[c].binding)' \/ conn[c].binding \in Loses
            BY <1>1, <2>1
        <3>1. Stands(conn[c].binding)
            BY <1>1 DEF SocketsInv
        <3>2. conn[c].binding \in Bindings
            BY DEF SocketsInv, Sound, Speaks, Usable, AuthenticatedSteps
        <3>3. PICK b \in Bindings : b = conn[c].binding
            BY <3>2
        <3>4. Stands(b)' \/ b \in Loses
            BY <2>1, <3>1, <3>3, LossesAreAnnounced DEF SocketsInv
        <3> QED BY <1>1, <3>3, <3>4 DEF Stands
    <2> QED BY <1>1, <2>1, <2>2, <2>3 DEF SocketsInv, Holders, Stores
<1> QED BY <1>2, <1>3

LEMMA InitSockets == Init => SocketsInv
<1> SUFFICES ASSUME Init PROVE SocketsInv
    OBVIOUS
<1>1. EnrollmentInv
    BY InitInv DEF Init
<1>2. Fresh \in Connection /\ Sound(Fresh) /\ ~Fresh.lease /\ ~Fresh.store /\ ~Speaks(Fresh)
    BY DEF Fresh, Connection, Steps, Sound, SpeakingSteps, AuthenticatedSteps, AskingSteps, Speaks, Usable
<1>3. Holders = {} /\ Stores = {}
    BY <1>2 DEF Init, Holders, Stores
<1> QED BY <1>1, <1>2, <1>3, FS_EmptySet DEF Init, SocketsInv

LEMMA StepSockets == SocketsInv /\ [Next]_vars => SocketsInv'
<1> SUFFICES ASSUME SocketsInv, [Next]_vars PROVE SocketsInv'
    OBVIOUS
<1>1. ASSUME NEW c \in Connections, ConnectionNext(c) PROVE SocketsInv'
    BY <1>1, TurnStep, AnswerStep DEF ConnectionNext, Asks, Settles
<1>2. CASE OwnerNext
    BY <1>2, CommitStep, AnnouncingStep DEF OwnerNext
<1>3. CASE ProviderCloses
    BY <1>3, ProviderClosesStep
<1>4. CASE UNCHANGED vars
    <2>1. UNCHANGED <<enrollmentVars, owner, lost, accepting, conn, references, directory, bindings>>
        BY <1>4 DEF vars, socketVars, enrollmentVars
    <2>2. EnrollmentInv'
        BY <2>1, StepInv DEF SocketsInv
    <2> QED BY <2>1, <2>2 DEF SocketsInv, Holders, Stores, Stands, Active, HasState, Known
<1> QED BY <1>1, <1>2, <1>3, <1>4 DEF Next

(* Any number of devices, sockets and members: what each socket holds at     *)
(* each of its steps, and whose loss of authority is still to be announced.  *)
THEOREM SocketsInvariant == SafeSpec => []SocketsInv
BY InitSockets, StepSockets, PTL DEF SafeSpec

(* Once a change is announced, no socket that can still go on speaks for a   *)
(* device without authority, not even one whose first question was answered  *)
(* just before (binding-producer-auth.ts, sync-connection.ts).               *)
THEOREM SocketsAreAuthorized == SafeSpec => []UsableSocketsAreAuthorized
<1>1. SocketsInv => UsableSocketsAreAuthorized
    BY DEF SocketsInv, UsableSocketsAreAuthorized, Speaks
<1> QED BY <1>1, SocketsInvariant, PTL

(* A runtime is referenced by exactly the leases that use it, whoever ends a *)
(* connection and in whatever order, and one in use is referenced.           *)
THEOREM RuntimeIsHeld == SafeSpec => []RuntimeHeldByItsUsers
<1>1. SocketsInv => RuntimeHeldByItsUsers
    <2> SUFFICES ASSUME SocketsInv PROVE RuntimeHeldByItsUsers
        OBVIOUS
    <2>1. Cardinality(Holders) \in Nat /\ Cardinality(Stores) \in Nat
        BY HoldersFinite, FS_CardinalityType
    <2>2. ASSUME NEW c \in Connections, Usable(conn[c]) PROVE references > 0
        <3>1. c \in Holders
            BY <2>2 DEF SocketsInv, Sound, Usable, SpeakingSteps, AuthenticatedSteps, Holders
        <3>2. Cardinality(Holders) # 0
            BY <3>1, HoldersFinite, FS_EmptySet
        <3> QED BY <2>1, <3>2 DEF SocketsInv
    <2> QED BY <2>2 DEF SocketsInv, RuntimeHeldByItsUsers, Holders, Stores
<1> QED BY <1>1, SocketsInvariant, PTL

---------------------------------------------------------------------------
(* An authenticated connection that was invalidated has been stopped.        *)
InvalidatedAreStopped ==
    \A c \in Connections : conn[c].aborted /\ conn[c].step \in AuthenticatedSteps => conn[c].stopped

LEMMA StepStops == SocketsInv /\ InvalidatedAreStopped /\ [Next]_vars => InvalidatedAreStopped'
<1> SUFFICES ASSUME SocketsInv, InvalidatedAreStopped, [Next]_vars PROVE InvalidatedAreStopped'
    OBVIOUS
<1> USE DEF InvalidatedAreStopped
<1>1. conn \in [Connections -> Connection]
    BY DEF SocketsInv
<1>2. ASSUME NEW c \in Connections, ConnectionNext(c) PROVE InvalidatedAreStopped'
    <2>1. ASSUME NEW r, Put(c, r), r.aborted /\ r.step \in AuthenticatedSteps => r.stopped
          PROVE  InvalidatedAreStopped'
        BY <1>1, <2>1 DEF Put
    <2>2. conn[c] \in Connection
        BY <1>1
    <2>3. /\ Failed(conn[c]).stopped /\ [Failed(conn[c]) EXCEPT !.lease = FALSE].stopped
          /\ [Failed(conn[c]) EXCEPT !.store = TRUE].stopped
        BY <2>2 DEF Failed, Connection
    <2>4. CASE Asks(c)
        BY <2>1, <2>2, <2>3, <2>4 DEF Asks, OwnerAnswers, OwnerRefuses, Operate, Current, Connection
    <2>5. CASE Resolve(c) \/ Challenge(c) \/ Adopt(c) \/ Select(c)
        BY <2>1, <2>2, <2>3, <2>5 DEF Resolve, Challenge, Adopt, Select, Current, Connection, AuthenticatedSteps
    <2>6. CASE Admit(c) \/ Perform(c) \/ Reply(c)
        BY <2>1, <2>2, <2>3, <2>6 DEF Admit, Perform, Reply, Current, Connection
    <2>7. CASE Cleanup(c) \/ ProviderReleases(c)
        BY <2>1, <2>2, <2>7 DEF Cleanup, ProviderReleases, Fresh, Connection
    <2>8. CASE Prove(c) \/ Request(c) \/ Stop(c) \/ \E b \in Bindings : Hello(c, b)
        BY <2>1, <2>2, <2>3, <2>8 DEF Prove, Request, Stop, Hello, Current, Connection, AuthenticatedSteps
    <2> QED BY <1>2, <2>4, <2>5, <2>6, <2>7, <2>8 DEF ConnectionNext, Settles
<1>3. ASSUME NEW who, Announced(who) PROVE InvalidatedAreStopped'
    <2>1. SUFFICES ASSUME NEW c \in Connections, conn'[c].aborted, conn'[c].step \in AuthenticatedSteps
                   PROVE  conn'[c].stopped
        OBVIOUS
    <2>2. /\ conn[c] \in Connection /\ conn'[c].step = conn[c].step
          /\ conn'[c].aborted = (conn[c].aborted \/ Hears(conn[c], who))
          /\ conn'[c].stopped = (conn[c].stopped \/ /\ conn[c].step \in AuthenticatedSteps
                                                    /\ conn[c].binding \in who
                                                    /\ conn[c].lease \/ conn[c].store)
        BY <1>1, <1>3 DEF Announced, Connection
    <2> QED BY <2>1, <2>2 DEF Hears, AuthenticatedSteps
<1>4. CASE ProviderCloses
    <2>1. SUFFICES ASSUME NEW c \in Connections, conn'[c].aborted, conn'[c].step \in AuthenticatedSteps
                   PROVE  conn'[c].stopped
        OBVIOUS
    <2>2. /\ conn[c] \in Connection /\ conn'[c].step = conn[c].step
          /\ conn'[c].aborted = (conn[c].aborted \/ conn[c].lease)
          /\ conn'[c].stopped = (conn[c].stopped \/ (conn[c].lease /\ conn[c].step \in AuthenticatedSteps))
        BY <1>1, <1>4 DEF ProviderCloses, Connection
    <2> QED BY <2>1, <2>2
<1>5. CASE OwnerCommits \/ OwnerFails \/ UNCHANGED vars
    BY <1>5 DEF OwnerCommits, OwnerFails, vars, socketVars
<1> QED BY <1>2, <1>3, <1>4, <1>5 DEF Next, OwnerNext, Publish, Release, RuntimeCloses

(* No invalidated connection waits for a request to notice: its socket has   *)
(* been stopped in the very turn that announced the loss, whatever question  *)
(* or operation of it was under way (sync-connection.ts,                     *)
(* binding-producer-auth.ts:98-104).                                         *)
THEOREM InvalidatedAreStoppedAtOnce == SafeSpec => []InvalidatedAreStopped
<1>1. Init => InvalidatedAreStopped
    BY DEF Init, InvalidatedAreStopped, Fresh
<1> QED BY <1>1, StepStops, SocketsInvariant, PTL DEF SafeSpec
=============================================================================
