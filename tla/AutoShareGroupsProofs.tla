------------------------ MODULE AutoShareGroupsProofs ------------------------
(***************************************************************************)
(* TypeOK, UsagesAccounted, NominationsExplained and PaymentsAccounted,    *)
(* for any users, groups, tokens, fees and percentages.                    *)
(***************************************************************************)
EXTENDS AutoShareGroups, FiniteSetTheorems, SequenceTheorems, WellFoundedInduction, TLAPS

\* Every step is one of these calls.
LEMMA StepCases ==
  ASSUME Next
  PROVE  \/ \E u \in Users : initialize_admin(u)
         \/ \E u \in Users : accept_ownership(u)
         \/ \E u, v \in Users : transfer_admin(u, v)
         \/ \E u, v \in Users : initiate_ownership_transfer(u, v)
         \/ \E u \in Users : pause(u) \/ unpause(u)
         \/ \E u \in Users, fee \in Fees : set_usage_fee(fee, u)
         \/ \E u \in Users, t \in Tokens : add_supported_token(t, u)
         \/ \E u \in Users, t \in Tokens : remove_supported_token(t, u)
         \/ \E u \in Users, t \in Tokens : \E n \in 1..balance[t] : withdraw(u, t, n)
         \/ \E u \in Users, t \in Tokens, g \in Groups, n \in 1..MaxUsages :
               create_autoshare(g, u, n, t)
         \/ \E u \in Users, t \in Tokens, g \in DOMAIN groups, n \in 1..MaxUsages :
               g \in Groups /\ topup_subscription(g, n, t, u)
         \/ \E u \in Users, g \in DOMAIN groups : cancel_subscription(g, u)
         \/ \E u \in Users, g \in DOMAIN groups : reduce_usage(g, u)
         \/ \E u \in Users, g \in DOMAIN groups : deactivate_group(g, u) \/ activate_group(g, u)
         \/ \E u, v \in Users, p \in Shares, g \in DOMAIN groups : add_group_member(g, u, v, p)
         \/ \E u \in Users, g \in DOMAIN groups, ms \in SeqOf(GroupMember, MaxMembers) :
               update_members(g, u, ms)
  BY DEF Next

-----------------------------------------------------------------------------
\* The administrator and the nomination.

LEMMA OwnershipCases ==
  ASSUME Next
  PROVE  \/ UNCHANGED ownership
         \/ \E u \in Users : initialize_admin(u)
         \/ \E u \in Users : accept_ownership(u)
         \/ \E u, v \in Users : transfer_admin(u, v)
         \/ \E u, v \in Users : initiate_ownership_transfer(u, v)
  BY StepCases DEF pause, unpause, set_usage_fee, add_supported_token,
     remove_supported_token, withdraw, create_autoshare, topup_subscription,
     cancel_subscription, reduce_usage, deactivate_group, activate_group,
     add_group_member, update_members, setMembers

LEMMA OwnersStep == OwnersOK /\ [Next]_vars => OwnersOK'
  <1> SUFFICES ASSUME OwnersOK, [Next]_vars PROVE OwnersOK'
    OBVIOUS
  <1> USE AutoShareGroupsAssumption DEF OwnersOK
  <1>1. CASE UNCHANGED ownership
    BY <1>1 DEF ownership
  <1>2. CASE \E u \in Users : initialize_admin(u)
    BY <1>2 DEF initialize_admin
  <1>3. CASE \E u \in Users : accept_ownership(u)
    BY <1>3 DEF accept_ownership
  <1>4. CASE \E u, v \in Users : transfer_admin(u, v)
    BY <1>4 DEF transfer_admin
  <1>5. CASE \E u, v \in Users : initiate_ownership_transfer(u, v)
    BY <1>5 DEF initiate_ownership_transfer, require_admin
  <1>6. CASE UNCHANGED vars
    BY <1>6, <1>1 DEF vars
  <1> QED
    BY <1>1, <1>2, <1>3, <1>4, <1>5, <1>6, OwnershipCases

\* A nomination outlives its nominator's time as administrator only by
\* transfer_admin.
LEMMA NominationsStep ==
  OwnersOK /\ NominationsExplained /\ [Next]_vars => NominationsExplained'
  <1> SUFFICES ASSUME OwnersOK, NominationsExplained, [Next]_vars
               PROVE  NominationsExplained'
    OBVIOUS
  <1> USE AutoShareGroupsAssumption DEF OwnersOK, NominationsExplained
  <1>1. CASE UNCHANGED ownership
    BY <1>1 DEF ownership
  <1>2. CASE \E u \in Users : initialize_admin(u)
    BY <1>2 DEF initialize_admin
  <1>3. CASE \E u \in Users : accept_ownership(u)
    BY <1>3 DEF accept_ownership
  <1>4. CASE \E u, v \in Users : transfer_admin(u, v)
    BY <1>4 DEF transfer_admin
  <1>5. CASE \E u, v \in Users : initiate_ownership_transfer(u, v)
    BY <1>5 DEF initiate_ownership_transfer, require_admin
  <1>6. CASE UNCHANGED vars
    BY <1>6, <1>1 DEF vars
  <1> QED
    BY <1>1, <1>2, <1>3, <1>4, <1>5, <1>6, OwnershipCases

-----------------------------------------------------------------------------
\* Settings and money.

LEMMA SettingsStep == SettingsOK /\ [Next]_vars => SettingsOK'
  <1> SUFFICES ASSUME SettingsOK, [Next]_vars PROVE SettingsOK'
    OBVIOUS
  <1> USE DEF SettingsOK
  <1>1. CASE UNCHANGED settings
    BY <1>1 DEF settings
  <1>2. CASE \E u \in Users : initialize_admin(u)
    BY <1>2 DEF initialize_admin
  <1>3. CASE \E u \in Users : pause(u) \/ unpause(u)
    BY <1>3 DEF pause, unpause
  <1>4. CASE \E u \in Users, fee \in Fees : set_usage_fee(fee, u)
    BY <1>4 DEF set_usage_fee
  <1>5. CASE \E u \in Users, t \in Tokens : add_supported_token(t, u)
    BY <1>5 DEF add_supported_token
  <1>6. CASE \E u \in Users, t \in Tokens : remove_supported_token(t, u)
    BY <1>6 DEF remove_supported_token
  <1>7. CASE UNCHANGED vars
    BY <1>7, <1>1 DEF vars
  <1>8. ASSUME Next
        PROVE  \/ UNCHANGED settings
               \/ \E u \in Users : initialize_admin(u)
               \/ \E u \in Users : pause(u) \/ unpause(u)
               \/ \E u \in Users, fee \in Fees : set_usage_fee(fee, u)
               \/ \E u \in Users, t \in Tokens : add_supported_token(t, u)
               \/ \E u \in Users, t \in Tokens : remove_supported_token(t, u)
    BY <1>8, StepCases DEF accept_ownership, transfer_admin, initiate_ownership_transfer,
       withdraw, create_autoshare, topup_subscription, cancel_subscription, reduce_usage,
       deactivate_group, activate_group, add_group_member, update_members, setMembers
  <1> QED
    BY <1>1, <1>2, <1>3, <1>4, <1>5, <1>6, <1>7, <1>8

\* A payment is recorded with both histories and paid into one balance.
LEMMA PayStep ==
  ASSUME SettingsOK, MoneyOK, NEW u \in Users, NEW g \in Groups, NEW n \in Nat,
         NEW t \in Tokens, pay(u, g, n, t)
  PROVE  MoneyOK'
  <1>1. n * usage_fee \in Nat
    BY AutoShareGroupsAssumption DEF SettingsOK
  <1> DEFINE amount == n * usage_fee
             payment == [user |-> u, group_id |-> g, usages_purchased |-> n,
                         amount_paid |-> amount]
  <1>2. payment \in PaymentHistory
    BY <1>1 DEF PaymentHistory
  <1>3. /\ user_history' = [user_history EXCEPT ![u] = Append(@, payment)]
        /\ group_history' = [group_history EXCEPT ![g] = Append(@, payment)]
        /\ balance' = [balance EXCEPT ![t] = @ + amount]
        /\ withdrawn' = withdrawn
    BY DEF pay, record_payment
  <1> HIDE DEF payment, amount
  <1> QED
    BY <1>1, <1>2, <1>3 DEF MoneyOK, amount

LEMMA MoneyStep == SettingsOK /\ MoneyOK /\ [Next]_vars => MoneyOK'
  <1> SUFFICES ASSUME SettingsOK, MoneyOK, [Next]_vars PROVE MoneyOK'
    OBVIOUS
  <1>1. CASE UNCHANGED money
    BY <1>1 DEF money, MoneyOK
  <1>2. CASE \E u \in Users, t \in Tokens : \E n \in 1..balance[t] : withdraw(u, t, n)
    <2> PICK u \in Users, t \in Tokens : \E n \in 1..balance[t] : withdraw(u, t, n)
      BY <1>2
    <2> PICK n \in 1..balance[t] : withdraw(u, t, n)
      OBVIOUS
    <2>1. balance[t] \in Nat
      BY DEF MoneyOK
    <2>2. n \in Nat /\ balance[t] - n \in Nat
      BY <2>1
    <2> QED
      BY <2>1, <2>2 DEF withdraw, MoneyOK
  <1>3. CASE \E u \in Users, t \in Tokens, g \in Groups, n \in 1..MaxUsages :
               pay(u, g, n, t)
    BY <1>3, PayStep
  <1>4. CASE UNCHANGED vars
    BY <1>4, <1>1 DEF vars
  <1>5. ASSUME Next
        PROVE  \/ UNCHANGED money
               \/ \E u \in Users, t \in Tokens : \E n \in 1..balance[t] : withdraw(u, t, n)
               \/ \E u \in Users, t \in Tokens, g \in Groups, n \in 1..MaxUsages :
                     pay(u, g, n, t)
    BY <1>5, StepCases DEF initialize_admin, accept_ownership, transfer_admin,
       initiate_ownership_transfer, pause, unpause, set_usage_fee, add_supported_token,
       remove_supported_token, create_autoshare, topup_subscription, cancel_subscription,
       reduce_usage, deactivate_group, activate_group, add_group_member, update_members,
       setMembers
  <1> QED
    BY <1>1, <1>2, <1>3, <1>4, <1>5

-----------------------------------------------------------------------------
\* Groups.

\* Updates of one group's record.
LEMMA CountsUpdated ==
  ASSUME NEW r \in Group, NEW m \in Nat, NEW n \in Nat
  PROVE  /\ [r EXCEPT !.usage_count = m] \in Group
         /\ [r EXCEPT !.usage_count = m].members = r.members
         /\ [r EXCEPT !.usage_count = m, !.total_usages_paid = n] \in Group
         /\ [r EXCEPT !.usage_count = m, !.total_usages_paid = n].members = r.members
  BY DEF Group

LEMMA ActivityUpdated ==
  ASSUME NEW r \in Group, NEW b \in BOOLEAN
  PROVE  /\ [r EXCEPT !.is_active = b] \in Group
         /\ [r EXCEPT !.is_active = b].members = r.members
         /\ [r EXCEPT !.is_active = b, !.usage_count = 0] \in Group
         /\ [r EXCEPT !.is_active = b, !.usage_count = 0].members = r.members
  BY DEF Group

LEMMA MembersUpdated ==
  ASSUME NEW r \in Group, NEW members \in Seq(GroupMember)
  PROVE  /\ [r EXCEPT !.members = members] \in Group
         /\ [r EXCEPT !.members = members].members = members
  BY DEF Group

LEMMA GroupChanged ==
  ASSUME GroupsOK, NEW g \in DOMAIN groups, NEW r \in Group, MembersOK(r.members),
         groups' = [groups EXCEPT ![g] = r]
  PROVE  GroupsOK'
  <1>1. DOMAIN groups' = DOMAIN groups /\ groups' \in [DOMAIN groups -> Group]
    BY DEF GroupsOK
  <1>2. \A h \in DOMAIN groups : groups'[h] = IF h = g THEN r ELSE groups[h]
    BY DEF GroupsOK
  <1>3. \A h \in DOMAIN groups' : MembersOK(groups'[h].members)
    BY <1>1, <1>2 DEF GroupsOK
  <1> QED
    BY <1>1, <1>3 DEF GroupsOK

\* What a call does to a group that exists.
LEMMA CallsOnGroups ==
  ASSUME SettingsOK, GroupsOK, NEW g \in DOMAIN groups, NEW u \in Users
  PROVE  /\ \A t \in Tokens, n \in 1..MaxUsages : topup_subscription(g, n, t, u) => GroupsOK'
         /\ cancel_subscription(g, u) => GroupsOK'
         /\ reduce_usage(g, u) => GroupsOK'
         /\ deactivate_group(g, u) \/ activate_group(g, u) => GroupsOK'
  <1>1. groups[g] \in Group /\ MembersOK(groups[g].members)
    BY DEF GroupsOK
  <1>2. groups[g].usage_count \in Nat /\ groups[g].total_usages_paid \in Nat
    BY <1>1 DEF Group
  <1>3. ASSUME NEW t \in Tokens, NEW n \in 1..MaxUsages, topup_subscription(g, n, t, u)
        PROVE  GroupsOK'
    <2> DEFINE m == groups[g].usage_count + n
               k == groups[g].total_usages_paid + n
               r == [groups[g] EXCEPT !.usage_count = m, !.total_usages_paid = k]
    <2>1. m \in Nat /\ k \in Nat
      BY <1>2
    <2>2. groups' = [groups EXCEPT ![g] = r]
      BY <1>3 DEF topup_subscription, GroupsOK
    <2> HIDE DEF m, k
    <2>3. r \in Group /\ r.members = groups[g].members
      BY <1>1, <2>1, CountsUpdated
    <2> HIDE DEF r
    <2> QED
      BY <1>1, <2>2, <2>3, GroupChanged
  <1>4. ASSUME cancel_subscription(g, u)
        PROVE  GroupsOK'
    <2> DEFINE r == [groups[g] EXCEPT !.is_active = FALSE, !.usage_count = 0]
    <2>1. groups' = [groups EXCEPT ![g] = r]
      BY <1>4 DEF cancel_subscription, GroupsOK
    <2>2. r \in Group /\ r.members = groups[g].members
      BY <1>1, ActivityUpdated
    <2> HIDE DEF r
    <2> QED
      BY <1>1, <2>1, <2>2, GroupChanged
  <1>5. ASSUME reduce_usage(g, u)
        PROVE  GroupsOK'
    <2> DEFINE m == groups[g].usage_count - 1
               r == [groups[g] EXCEPT !.usage_count = m]
    <2>1. m \in Nat
      BY <1>2, <1>5 DEF reduce_usage
    <2>2. groups' = [groups EXCEPT ![g] = r]
      BY <1>5 DEF reduce_usage, GroupsOK
    <2> HIDE DEF m
    <2>3. r \in Group /\ r.members = groups[g].members
      BY <1>1, <2>1, CountsUpdated
    <2> HIDE DEF r
    <2> QED
      BY <1>1, <2>2, <2>3, GroupChanged
  <1>6. ASSUME deactivate_group(g, u) \/ activate_group(g, u)
        PROVE  GroupsOK'
    <2>1. PICK b \in BOOLEAN :
                 groups' = [groups EXCEPT ![g] = [groups[g] EXCEPT !.is_active = b]]
      BY <1>6 DEF deactivate_group, activate_group, GroupsOK
    <2> DEFINE r == [groups[g] EXCEPT !.is_active = b]
    <2>2. r \in Group /\ r.members = groups[g].members
      BY <1>1, ActivityUpdated
    <2>3. groups' = [groups EXCEPT ![g] = r]
      BY <2>1
    <2> HIDE DEF r
    <2> QED
      BY <1>1, <2>2, <2>3, GroupChanged
  <1> QED
    BY <1>3, <1>4, <1>5, <1>6

\* The members a call installs were validated.
LEMMA MembersStep ==
  ASSUME GroupsOK, NEW g \in DOMAIN groups, NEW members \in Seq(GroupMember),
         setMembers(g, members)
  PROVE  GroupsOK'
  <1> DEFINE r == [groups[g] EXCEPT !.members = members]
  <1>1. groups[g] \in Group
    BY DEF GroupsOK
  <1>2. groups' = [groups EXCEPT ![g] = r]
    BY DEF setMembers, GroupsOK
  <1>3. r \in Group /\ r.members = members
    BY <1>1, MembersUpdated
  <1>4. MembersOK(members)
    <2>1. IsInjective([n \in DOMAIN members |-> members[n].address])
      BY DEF setMembers, validate_members
    <2>2. \A m, n \in DOMAIN members : members[m].address = members[n].address => m = n
      BY <2>1 DEF IsInjective
    <2> QED
      BY <2>2 DEF setMembers, validate_members, MembersOK
  <1> HIDE DEF r
  <1> QED
    BY <1>2, <1>3, <1>4, GroupChanged

\* A new group has no members.
LEMMA GroupCreated ==
  ASSUME SettingsOK, GroupsOK, NEW g \in Groups, NEW u \in Users, NEW n \in Nat,
         NEW t \in Tokens, create_autoshare(g, u, n, t)
  PROVE  GroupsOK'
  <1> DEFINE r == [creator |-> u, usage_count |-> n, total_usages_paid |-> n,
                   members |-> <<>>, is_active |-> TRUE]
  <1>1. r \in Group /\ r.members = <<>>
    BY DEF Group
  <1>2. groups' = [h \in DOMAIN groups \cup {g} |-> IF h = g THEN r ELSE groups[h]]
    BY DEF create_autoshare
  <1>3. MembersOK(<<>>)
    BY DEF MembersOK
  <1> HIDE DEF r
  <1>4. /\ DOMAIN groups' \subseteq Groups
        /\ groups' \in [DOMAIN groups' -> Group]
    BY <1>1, <1>2 DEF GroupsOK
  <1>5. \A h \in DOMAIN groups' : MembersOK(groups'[h].members)
    BY <1>1, <1>2, <1>3 DEF GroupsOK
  <1> QED
    BY <1>4, <1>5 DEF GroupsOK

\* The steps that touch groups and their usages. The members of a group are
\* only ever set by setMembers.
LEMMA GroupCases ==
  ASSUME GroupsOK, Next
  PROVE  \/ UNCHANGED <<groups, usages>>
         \/ \E u \in Users, t \in Tokens, g \in Groups, n \in 1..MaxUsages :
               create_autoshare(g, u, n, t)
         \/ \E u \in Users, t \in Tokens, g \in DOMAIN groups, n \in 1..MaxUsages :
               topup_subscription(g, n, t, u)
         \/ \E u \in Users, g \in DOMAIN groups : cancel_subscription(g, u)
         \/ \E u \in Users, g \in DOMAIN groups : reduce_usage(g, u)
         \/ \E u \in Users, g \in DOMAIN groups : deactivate_group(g, u) \/ activate_group(g, u)
         \/ \E g \in DOMAIN groups, ms \in Seq(GroupMember) : setMembers(g, ms)
  <1>1. ASSUME NEW u \in Users, NEW v \in Users, NEW p \in Shares, NEW g \in DOMAIN groups,
               add_group_member(g, u, v, p)
        PROVE  \E ms \in Seq(GroupMember) : setMembers(g, ms)
    <2> DEFINE m == [address |-> v, percentage |-> p]
               members == Append(groups[g].members, m)
    <2>1. groups[g].members \in Seq(GroupMember) /\ m \in GroupMember
      BY DEF GroupsOK, Group, GroupMember
    <2>2. setMembers(g, members)
      BY <1>1 DEF add_group_member
    <2> HIDE DEF m
    <2>3. members \in Seq(GroupMember)
      BY <2>1
    <2> HIDE DEF members
    <2> QED
      BY <2>2, <2>3
  <1>2. ASSUME NEW u \in Users, NEW g \in DOMAIN groups, NEW ms \in SeqOf(GroupMember, MaxMembers),
               update_members(g, u, ms)
        PROVE  ms \in Seq(GroupMember) /\ setMembers(g, ms)
    BY <1>2 DEF SeqOf, update_members
  <1>3. \/ UNCHANGED <<groups, usages>>
        \/ \E u \in Users, t \in Tokens, g \in Groups, n \in 1..MaxUsages :
              create_autoshare(g, u, n, t)
        \/ \E u \in Users, t \in Tokens, g \in DOMAIN groups, n \in 1..MaxUsages :
              topup_subscription(g, n, t, u)
        \/ \E u \in Users, g \in DOMAIN groups : cancel_subscription(g, u)
        \/ \E u \in Users, g \in DOMAIN groups : reduce_usage(g, u)
        \/ \E u \in Users, g \in DOMAIN groups : deactivate_group(g, u) \/ activate_group(g, u)
        \/ \E u, v \in Users, p \in Shares, g \in DOMAIN groups : add_group_member(g, u, v, p)
        \/ \E u \in Users, g \in DOMAIN groups, ms \in SeqOf(GroupMember, MaxMembers) :
              update_members(g, u, ms)
    BY StepCases DEF initialize_admin, accept_ownership, transfer_admin,
       initiate_ownership_transfer, pause, unpause, set_usage_fee, add_supported_token,
       remove_supported_token, withdraw
  <1> QED
    BY <1>1, <1>2, <1>3

\* A step leaves well-formed groups.
LEMMA GroupsStep == SettingsOK /\ GroupsOK /\ [Next]_vars => GroupsOK'
  <1> SUFFICES ASSUME SettingsOK, GroupsOK, [Next]_vars PROVE GroupsOK'
    OBVIOUS
  <1>1. CASE UNCHANGED <<groups, usages>>
    BY <1>1 DEF GroupsOK
  <1>2. CASE \E u \in Users, t \in Tokens, g \in Groups, n \in 1..MaxUsages :
                create_autoshare(g, u, n, t)
    <2> PICK u \in Users, t \in Tokens, g \in Groups, n \in 1..MaxUsages :
               create_autoshare(g, u, n, t)
      BY <1>2
    <2>1. n \in Nat
      OBVIOUS
    <2> QED
      BY <2>1, GroupCreated
  <1>3. CASE \E u \in Users, t \in Tokens, g \in DOMAIN groups, n \in 1..MaxUsages :
                topup_subscription(g, n, t, u)
    BY <1>3, CallsOnGroups
  <1>4. CASE \E u \in Users, g \in DOMAIN groups :
                \/ cancel_subscription(g, u)
                \/ reduce_usage(g, u)
                \/ deactivate_group(g, u) \/ activate_group(g, u)
    BY <1>4, CallsOnGroups
  <1>5. CASE \E g \in DOMAIN groups, ms \in Seq(GroupMember) : setMembers(g, ms)
    BY <1>5, MembersStep
  <1>6. CASE UNCHANGED vars
    BY <1>6, <1>1 DEF vars
  <1> QED
    BY <1>1, <1>2, <1>3, <1>4, <1>5, <1>6, GroupCases

-----------------------------------------------------------------------------
\* Usages.

\* What is left of a group's usages, and what it paid for, are counts.
LEMMA CountsNat ==
  ASSUME GroupsOK, NEW g \in DOMAIN groups
  PROVE  /\ g \in Groups /\ groups[g] \in Group
         /\ groups[g].usage_count \in Nat /\ groups[g].total_usages_paid \in Nat
  BY DEF GroupsOK, Group

\* The usages spent and lost remain counts.
LEMMA UsagesStep == GroupsOK /\ UsagesOK /\ [Next]_vars => UsagesOK'
  <1> SUFFICES ASSUME GroupsOK, UsagesOK, [Next]_vars PROVE UsagesOK'
    OBVIOUS
  <1>1. CASE UNCHANGED usages
    BY <1>1 DEF UsagesOK, usages
  <1>2. CASE \E u \in Users, g \in DOMAIN groups : cancel_subscription(g, u)
    <2> PICK u \in Users, g \in DOMAIN groups : cancel_subscription(g, u)
      BY <1>2
    <2>1. forfeited' = [forfeited EXCEPT ![g] = @ + groups[g].usage_count] /\ used' = used
      BY DEF cancel_subscription
    <2> QED
      BY <2>1, CountsNat DEF UsagesOK
  <1>3. CASE \E u \in Users, g \in DOMAIN groups : reduce_usage(g, u)
    <2> PICK u \in Users, g \in DOMAIN groups : reduce_usage(g, u)
      BY <1>3
    <2>1. used' = [used EXCEPT ![g] = @ + 1] /\ forfeited' = forfeited
      BY DEF reduce_usage
    <2> QED
      BY <2>1, CountsNat DEF UsagesOK
  <1>4. CASE UNCHANGED vars
    BY <1>4, <1>1 DEF vars
  <1>5. ASSUME Next, ~UNCHANGED usages
        PROVE  \/ \E u \in Users, g \in DOMAIN groups : cancel_subscription(g, u)
               \/ \E u \in Users, g \in DOMAIN groups : reduce_usage(g, u)
    BY <1>5, GroupCases DEF create_autoshare, topup_subscription, deactivate_group,
       activate_group, setMembers
  <1> QED
    BY <1>1, <1>2, <1>3, <1>4, <1>5

\* A call that spends, loses or buys usages of g alone, and accounts for them.
LEMMA UsagesOfOneGroup ==
  ASSUME GroupsOK, UsagesOK, UsagesAccounted, NEW g \in Groups,
         g \in DOMAIN groups',
         DOMAIN groups' = DOMAIN groups \cup {g},
         \A h \in DOMAIN groups \ {g} : groups'[h] = groups[h],
         \A h \in Groups \ {g} : used'[h] = used[h] /\ forfeited'[h] = forfeited[h],
         used'[g] + forfeited'[g] = groups'[g].total_usages_paid - groups'[g].usage_count
  PROVE  UsagesAccounted'
  <1> SUFFICES ASSUME NEW h \in Groups
               PROVE  used'[h] + forfeited'[h] =
                        IF h \in DOMAIN groups'
                        THEN groups'[h].total_usages_paid - groups'[h].usage_count
                        ELSE 0
    BY DEF UsagesAccounted
  <1>1. CASE h = g
    BY <1>1
  <1>2. CASE h # g
    BY <1>2 DEF UsagesAccounted
  <1> QED
    BY <1>1, <1>2

\* The counts after an update of one group.
LEMMA CountsAfter ==
  ASSUME GroupsOK, NEW g \in DOMAIN groups, NEW r, groups' = [groups EXCEPT ![g] = r]
  PROVE  /\ g \in Groups /\ g \in DOMAIN groups' /\ DOMAIN groups' = DOMAIN groups \cup {g}
         /\ \A h \in DOMAIN groups \ {g} : groups'[h] = groups[h]
         /\ groups'[g] = r
  BY DEF GroupsOK

\* Fields of a group's record after each kind of update.
LEMMA CountFields ==
  ASSUME NEW r \in Group, NEW m, NEW n, NEW b
  PROVE  /\ [r EXCEPT !.usage_count = m, !.total_usages_paid = n].usage_count = m
         /\ [r EXCEPT !.usage_count = m, !.total_usages_paid = n].total_usages_paid = n
         /\ [r EXCEPT !.usage_count = m].usage_count = m
         /\ [r EXCEPT !.usage_count = m].total_usages_paid = r.total_usages_paid
         /\ [r EXCEPT !.is_active = b, !.usage_count = m].usage_count = m
         /\ [r EXCEPT !.is_active = b, !.usage_count = m].total_usages_paid = r.total_usages_paid
         /\ [r EXCEPT !.is_active = b].usage_count = r.usage_count
         /\ [r EXCEPT !.is_active = b].total_usages_paid = r.total_usages_paid
         /\ [r EXCEPT !.members = m].usage_count = r.usage_count
         /\ [r EXCEPT !.members = m].total_usages_paid = r.total_usages_paid
  BY DEF Group

\* Every usage stays accounted for.
LEMMA UsagesAccountedStep ==
  GroupsOK /\ UsagesOK /\ UsagesAccounted /\ [Next]_vars => UsagesAccounted'
  <1> SUFFICES ASSUME GroupsOK, UsagesOK, UsagesAccounted, [Next]_vars
               PROVE  UsagesAccounted'
    OBVIOUS
  <1>1. CASE UNCHANGED <<groups, usages>>
    BY <1>1 DEF UsagesAccounted, usages
  <1>2. CASE \E u \in Users, t \in Tokens, g \in Groups, n \in 1..MaxUsages :
                create_autoshare(g, u, n, t)
    <2> PICK u \in Users, t \in Tokens, g \in Groups, n \in 1..MaxUsages :
               create_autoshare(g, u, n, t)
      BY <1>2
    <2> DEFINE r == [creator |-> u, usage_count |-> n, total_usages_paid |-> n,
                     members |-> <<>>, is_active |-> TRUE]
    <2>1. /\ groups' = [h \in DOMAIN groups \cup {g} |-> IF h = g THEN r ELSE groups[h]]
          /\ g \notin DOMAIN groups
          /\ used' = used /\ forfeited' = forfeited
      BY DEF create_autoshare, usages
    <2>2. r.usage_count = n /\ r.total_usages_paid = n /\ n \in Nat
      OBVIOUS
    <2> HIDE DEF r
    <2>3. used[g] + forfeited[g] = 0
      BY <2>1 DEF UsagesAccounted
    <2>4. /\ g \in DOMAIN groups' /\ DOMAIN groups' = DOMAIN groups \cup {g}
          /\ \A h \in DOMAIN groups \ {g} : groups'[h] = groups[h]
          /\ groups'[g] = r
      BY <2>1
    <2>5. used'[g] + forfeited'[g] = groups'[g].total_usages_paid - groups'[g].usage_count
      BY <2>1, <2>2, <2>3, <2>4
    <2> QED
      BY <2>1, <2>4, <2>5, UsagesOfOneGroup
  <1>3. CASE \E u \in Users, t \in Tokens, g \in DOMAIN groups, n \in 1..MaxUsages :
                topup_subscription(g, n, t, u)
    <2> PICK u \in Users, t \in Tokens, g \in DOMAIN groups, n \in 1..MaxUsages :
               topup_subscription(g, n, t, u)
      BY <1>3
    <2> DEFINE m == groups[g].usage_count + n
               k == groups[g].total_usages_paid + n
               r == [groups[g] EXCEPT !.usage_count = m, !.total_usages_paid = k]
    <2>1. /\ groups' = [groups EXCEPT ![g] = r]
          /\ used' = used /\ forfeited' = forfeited
      BY DEF topup_subscription, GroupsOK, usages
    <2>2. k - m = groups[g].total_usages_paid - groups[g].usage_count
      BY CountsNat
    <2> HIDE DEF m, k
    <2>3. r.usage_count = m /\ r.total_usages_paid = k
      BY CountsNat, CountFields
    <2> HIDE DEF r
    <2>4. used[g] + forfeited[g] = k - m
      BY <2>2, CountsNat DEF UsagesAccounted
    <2> QED
      BY <2>1, <2>3, <2>4, CountsAfter, UsagesOfOneGroup
  <1>4. CASE \E u \in Users, g \in DOMAIN groups : cancel_subscription(g, u)
    <2> PICK u \in Users, g \in DOMAIN groups : cancel_subscription(g, u)
      BY <1>4
    <2> DEFINE r == [groups[g] EXCEPT !.is_active = FALSE, !.usage_count = 0]
    <2>1. /\ groups' = [groups EXCEPT ![g] = r]
          /\ used' = used
          /\ forfeited' = [forfeited EXCEPT ![g] = @ + groups[g].usage_count]
      BY DEF cancel_subscription, GroupsOK
    <2>2. r.usage_count = 0 /\ r.total_usages_paid = groups[g].total_usages_paid
      BY CountsNat, CountFields
    <2> HIDE DEF r
    <2>3. used[g] + forfeited[g] = groups[g].total_usages_paid - groups[g].usage_count
      BY CountsNat DEF UsagesAccounted
    <2>4. /\ used[g] \in Nat /\ forfeited[g] \in Nat
          /\ forfeited'[g] = forfeited[g] + groups[g].usage_count
          /\ \A h \in Groups \ {g} : forfeited'[h] = forfeited[h]
      BY <2>1, CountsNat DEF UsagesOK
    <2>5. used'[g] + forfeited'[g] = r.total_usages_paid - r.usage_count
      BY <2>1, <2>2, <2>3, <2>4, CountsNat
    <2> QED
      BY <2>1, <2>4, <2>5, CountsAfter, UsagesOfOneGroup
  <1>5. CASE \E u \in Users, g \in DOMAIN groups : reduce_usage(g, u)
    <2> PICK u \in Users, g \in DOMAIN groups : reduce_usage(g, u)
      BY <1>5
    <2> DEFINE m == groups[g].usage_count - 1
               r == [groups[g] EXCEPT !.usage_count = m]
    <2>1. /\ groups' = [groups EXCEPT ![g] = r]
          /\ used' = [used EXCEPT ![g] = @ + 1]
          /\ forfeited' = forfeited
      BY DEF reduce_usage, GroupsOK
    <2>2. r.usage_count = m /\ r.total_usages_paid = groups[g].total_usages_paid
      BY CountsNat, CountFields
    <2> HIDE DEF r
    <2>3. used[g] + forfeited[g] = groups[g].total_usages_paid - groups[g].usage_count
      BY CountsNat DEF UsagesAccounted
    <2>4. /\ used[g] \in Nat /\ forfeited[g] \in Nat
          /\ used'[g] = used[g] + 1
          /\ \A h \in Groups \ {g} : used'[h] = used[h]
      BY <2>1, CountsNat DEF UsagesOK
    <2>5. used'[g] + forfeited'[g] = r.total_usages_paid - r.usage_count
      BY <2>1, <2>2, <2>3, <2>4, CountsNat
    <2> QED
      BY <2>1, <2>4, <2>5, CountsAfter, UsagesOfOneGroup
  <1>6. CASE \E u \in Users, g \in DOMAIN groups : deactivate_group(g, u) \/ activate_group(g, u)
    <2> PICK u \in Users, g \in DOMAIN groups : deactivate_group(g, u) \/ activate_group(g, u)
      BY <1>6
    <2>1. PICK b \in BOOLEAN :
                 groups' = [groups EXCEPT ![g] = [groups[g] EXCEPT !.is_active = b]]
      BY DEF deactivate_group, activate_group, GroupsOK
    <2> DEFINE r == [groups[g] EXCEPT !.is_active = b]
    <2>2. groups' = [groups EXCEPT ![g] = r] /\ used' = used /\ forfeited' = forfeited
      BY <2>1 DEF deactivate_group, activate_group, usages
    <2>3. /\ r.usage_count = groups[g].usage_count
          /\ r.total_usages_paid = groups[g].total_usages_paid
      BY CountsNat, CountFields
    <2> HIDE DEF r
    <2>4. used[g] + forfeited[g] = r.total_usages_paid - r.usage_count
      BY <2>3, CountsNat DEF UsagesAccounted
    <2> QED
      BY <2>2, <2>4, CountsAfter, UsagesOfOneGroup
  <1>7. CASE \E g \in DOMAIN groups, ms \in Seq(GroupMember) : setMembers(g, ms)
    <2> PICK g \in DOMAIN groups, ms \in Seq(GroupMember) : setMembers(g, ms)
      BY <1>7
    <2> DEFINE r == [groups[g] EXCEPT !.members = ms]
    <2>1. groups' = [groups EXCEPT ![g] = r] /\ used' = used /\ forfeited' = forfeited
      BY DEF setMembers, GroupsOK, usages
    <2>2. /\ r.usage_count = groups[g].usage_count
          /\ r.total_usages_paid = groups[g].total_usages_paid
      BY CountsNat, CountFields
    <2> HIDE DEF r
    <2>3. used[g] + forfeited[g] = r.total_usages_paid - r.usage_count
      BY <2>2, CountsNat DEF UsagesAccounted
    <2> QED
      BY <2>1, <2>3, CountsAfter, UsagesOfOneGroup
  <1>8. CASE UNCHANGED vars
    BY <1>8, <1>1 DEF vars
  <1> QED
    BY <1>1, <1>2, <1>3, <1>4, <1>5, <1>6, <1>7, <1>8, GroupCases

-----------------------------------------------------------------------------
\* The invariants hold in the initial states.
LEMMA InitOK == Init => TypeOK /\ UsagesAccounted /\ NominationsExplained
  <1> SUFFICES ASSUME Init PROVE TypeOK /\ UsagesAccounted /\ NominationsExplained
    OBVIOUS
  <1> USE DEF Init
  <1>1. OwnersOK /\ NominationsExplained
    BY DEF OwnersOK, NominationsExplained
  <1>2. SettingsOK /\ UsagesOK
    BY DEF SettingsOK, UsagesOK
  <1>3. GroupsOK
    BY DEF GroupsOK
  <1>4. MoneyOK
    BY DEF MoneyOK
  <1>5. UsagesAccounted
    BY DEF UsagesAccounted
  <1> QED
    BY <1>1, <1>2, <1>3, <1>4, <1>5 DEF TypeOK

\* Types, and the members of every group share the whole, whatever the
\* percentages and however members are added and replaced.
THEOREM TypeCorrect == Spec => []TypeOK
  <1>1. TypeOK /\ [Next]_vars => TypeOK'
    BY OwnersStep, SettingsStep, GroupsStep, MoneyStep, UsagesStep DEF TypeOK
  <1> QED
    BY <1>1, InitOK, PTL DEF Spec

\* Every usage a group paid for is left, spent or lost by a cancellation.
THEOREM UsagesCorrect == Spec => []UsagesAccounted
  <1>1. TypeOK /\ UsagesAccounted /\ [Next]_vars => UsagesAccounted'
    BY UsagesAccountedStep DEF TypeOK
  <1> QED
    BY <1>1, InitOK, TypeCorrect, PTL DEF Spec

\* A nomination the owner did not make was left behind by transfer_admin.
THEOREM NominationsCorrect == Spec => []NominationsExplained
  <1>1. TypeOK /\ NominationsExplained /\ [Next]_vars => NominationsExplained'
    BY NominationsStep DEF TypeOK
  <1> QED
    BY <1>1, InitOK, TypeCorrect, PTL DEF Spec

-----------------------------------------------------------------------------
\* Sums over finite sets.  The library defines them by a recursive function on the
\* subsets, so what they are is shown by induction on the number of elements: of
\* the sets for which it fails there would be one with the fewest.
\* A set of numbers that is not empty has a least one.
LEMMA Least ==
  ASSUME NEW T \in SUBSET Nat, T # {}
  PROVE  \E n \in T : \A m \in T : n <= m
  <1> DEFINE Less == {mn \in Nat \X Nat : mn[1] < mn[2]}
  <1>1. IsWellFoundedOn(Less, Nat)
    BY NatLessThanWellFounded DEF OpToRel
  <1>2. \E n \in T : \A m \in T : <<m, n>> \notin Less
    <2> HIDE DEF Less
    <2> QED
      BY <1>1, WFMin
  <1>3. \A m, n \in Nat : m < n => <<m, n>> \in Less
    OBVIOUS
  <1> HIDE DEF Less
  <1>4. PICK n \in T : \A m \in T : <<m, n>> \notin Less
    BY <1>2
  <1>5. \A m \in T : n <= m
    <2> SUFFICES ASSUME NEW m \in T, ~(n <= m) PROVE FALSE
      OBVIOUS
    <2>1. m \in Nat /\ n \in Nat /\ m < n
      OBVIOUS
    <2> QED
      BY <1>3, <1>4, <2>1
  <1> QED
    BY <1>4, <1>5

AnyOf(s) == CHOOSE x \in s : TRUE

\* What is to be added for s if h gives the sums of smaller sets.
SumStep(h, f, s) == IF s = {} THEN 0 ELSE f[AnyOf(s)] + h[s \ {AnyOf(s)}]

\* h sums f over the subsets of S.
Sums(h, f, S) == h = [s \in SUBSET S |-> SumStep(h, f, s)]

UpTo(S, n) == {s \in SUBSET S : Cardinality(s) <= n}

SumsUpTo(h, f, S, n) == h = [s \in UpTo(S, n) |-> SumStep(h, f, s)]

LEMMA Smaller ==
  ASSUME NEW S, IsFiniteSet(S), NEW s \in SUBSET S, s # {}
  PROVE  /\ AnyOf(s) \in s /\ s \ {AnyOf(s)} \in SUBSET S
         /\ IsFiniteSet(s) /\ Cardinality(s) \in Nat /\ Cardinality(s) > 0
         /\ \A x \in s : Cardinality(s \ {x}) = Cardinality(s) - 1
  <1>1. AnyOf(s) \in s
    BY DEF AnyOf
  <1>2. IsFiniteSet(s) /\ Cardinality(s) \in Nat
    BY FS_Subset, FS_CardinalityType
  <1>3. \A x \in s : Cardinality(s \ {x}) = Cardinality(s) - 1
    BY <1>2, FS_RemoveElement
  <1>4. Cardinality(s) # 0
    BY <1>2, FS_EmptySet
  <1> QED
    BY <1>1, <1>2, <1>3, <1>4

LEMMA SumsUpToExist ==
  ASSUME NEW S, IsFiniteSet(S), NEW f
  PROVE  \A n \in Nat : \E h : SumsUpTo(h, f, S, n)
  <1> DEFINE T == {n \in Nat : ~ \E h : SumsUpTo(h, f, S, n)}
  <1>1. SUFFICES ASSUME T # {} PROVE FALSE
    OBVIOUS
  <1>2. PICK n \in T : \A m \in T : n <= m
    BY <1>1, Least
  <1>3. CASE n = 0
    <2> DEFINE h == [s \in UpTo(S, 0) |-> 0]
    <2>1. \A s \in UpTo(S, 0) : s = {}
      <3>1. \A s \in SUBSET S : s # {} => Cardinality(s) > 0
        BY Smaller
      <3>2. \A s \in SUBSET S : Cardinality(s) \in Nat
        BY FS_Subset, FS_CardinalityType
      <3> QED
        BY <3>1, <3>2 DEF UpTo
    <2>2. SumsUpTo(h, f, S, 0)
      BY <2>1 DEF SumsUpTo, SumStep
    <2> QED
      BY <1>2, <1>3, <2>2
  <1>4. CASE n # 0
    <2>1. n - 1 \in Nat /\ n - 1 \notin T
      BY <1>2, <1>4
    <2>2. PICK h : SumsUpTo(h, f, S, n - 1)
      BY <2>1
    <2> DEFINE g == [s \in UpTo(S, n) |-> SumStep(h, f, s)]
    <2>3. \A s \in UpTo(S, n - 1) : s \in UpTo(S, n) /\ g[s] = h[s]
      <3>1. \A s \in UpTo(S, n - 1) : s \in UpTo(S, n)
        <4>1. \A s \in SUBSET S : Cardinality(s) \in Nat
          BY FS_Subset, FS_CardinalityType
        <4> QED
          BY <1>2, <4>1 DEF UpTo
      <3>2. \A s \in UpTo(S, n - 1) : h[s] = SumStep(h, f, s)
        BY <2>2 DEF SumsUpTo
      <3> QED
        BY <3>1, <3>2
    <2>4. \A s \in UpTo(S, n) : s # {} => s \ {AnyOf(s)} \in UpTo(S, n - 1)
      BY <1>2, Smaller DEF UpTo
    <2>5. \A s \in UpTo(S, n) : SumStep(h, f, s) = SumStep(g, f, s)
      BY <2>3, <2>4 DEF SumStep
    <2>6. g = [s \in UpTo(S, n) |-> SumStep(g, f, s)]
      BY <2>5
    <2> QED
      BY <1>2, <2>6 DEF SumsUpTo
  <1> QED
    BY <1>3, <1>4

LEMMA SumsExist ==
  ASSUME NEW S, IsFiniteSet(S), NEW f
  PROVE  \E h : Sums(h, f, S)
  <1>1. Cardinality(S) \in Nat
    BY FS_CardinalityType
  <1>2. UpTo(S, Cardinality(S)) = SUBSET S
    BY FS_Subset DEF UpTo
  <1>3. PICK h : SumsUpTo(h, f, S, Cardinality(S))
    BY <1>1, SumsUpToExist
  <1> QED
    BY <1>2, <1>3 DEF Sums, SumsUpTo

\* f has integers to add.
Summable(f, S) == \A x \in S : f[x] \in Int

LEMMA SumsAreInt ==
  ASSUME NEW S, IsFiniteSet(S), NEW f, Summable(f, S), NEW h, Sums(h, f, S)
  PROVE  \A s \in SUBSET S : h[s] \in Int
  <1> DEFINE T == {n \in Nat : \E s \in SUBSET S : Cardinality(s) = n /\ h[s] \notin Int}
  <1>0. \A s \in SUBSET S : h[s] = SumStep(h, f, s)
    BY DEF Sums
  <1>1. \A s \in SUBSET S : Cardinality(s) \in Nat
    BY FS_Subset, FS_CardinalityType
  <1>2. SUFFICES ASSUME T # {} PROVE FALSE
    BY <1>1
  <1>3. PICK n \in T : \A m \in T : n <= m
    BY <1>2, Least
  <1>4. PICK s \in SUBSET S : Cardinality(s) = n /\ h[s] \notin Int
    BY <1>3
  <1>5. s # {}
    <2>1. h[{}] = 0
      BY <1>0 DEF SumStep
    <2> QED
      BY <1>4, <2>1
  <1>6. h[s \ {AnyOf(s)}] \in Int
    BY <1>1, <1>3, <1>4, <1>5, Smaller
  <1>7. AnyOf(s) \in S
    BY <1>5, Smaller
  <1> QED
    BY <1>0, <1>4, <1>5, <1>6, <1>7 DEF SumStep, Summable

\* Any element may be the one to be added last.
LEMMA SumWithout ==
  ASSUME NEW S, IsFiniteSet(S), NEW f, Summable(f, S), NEW h, Sums(h, f, S)
  PROVE  \A s \in SUBSET S : \A x \in s : h[s] = f[x] + h[s \ {x}]
  <1> DEFINE Bad(s) == \E x \in s : h[s] # f[x] + h[s \ {x}]
             T == {n \in Nat : \E s \in SUBSET S : Cardinality(s) = n /\ Bad(s)}
  <1>0. \A s \in SUBSET S : h[s] = SumStep(h, f, s) /\ h[s] \in Int
    BY SumsAreInt DEF Sums
  <1>1. \A s \in SUBSET S : Cardinality(s) \in Nat
    BY FS_Subset, FS_CardinalityType
  <1>2. SUFFICES ASSUME T # {} PROVE FALSE
    BY <1>1
  <1>3. PICK n \in T : \A m \in T : n <= m
    BY <1>2, Least
  <1>4. PICK s \in SUBSET S, x \in S : Cardinality(s) = n /\ x \in s /\ h[s] # f[x] + h[s \ {x}]
    BY <1>3
  <1>5. \A r \in SUBSET S : \A y \in r : Cardinality(r) < n => h[r] = f[y] + h[r \ {y}]
    <2> SUFFICES ASSUME NEW r \in SUBSET S, NEW y \in r, Cardinality(r) < n,
                        h[r] # f[y] + h[r \ {y}]
                 PROVE  FALSE
      OBVIOUS
    <2>1. Cardinality(r) \in T
      BY <1>1
    <2> QED
      BY <1>1, <1>3, <2>1
  <1> DEFINE y == AnyOf(s)
  <1>6. /\ s # {} /\ y \in s /\ s \ {y} \in SUBSET S /\ s \ {x} \in SUBSET S
        /\ s \ {x, y} \in SUBSET S
        /\ Cardinality(s \ {x}) < n /\ Cardinality(s \ {y}) < n
    BY <1>1, <1>3, <1>4, Smaller
  <1>7. h[s] = f[y] + h[s \ {y}]
    BY <1>0, <1>6 DEF SumStep
  <1>8. x # y
    BY <1>4, <1>7
  <1> HIDE DEF y
  <1>9. h[s \ {y}] = f[x] + h[s \ {x, y}]
    <2>1. (s \ {y}) \ {x} = s \ {x, y} /\ x \in s \ {y}
      BY <1>4, <1>8
    <2> QED
      BY <1>5, <1>6, <2>1
  <1>10. h[s \ {x}] = f[y] + h[s \ {x, y}]
    <2>1. (s \ {x}) \ {y} = s \ {x, y} /\ y \in s \ {x}
      BY <1>6, <1>8
    <2> QED
      BY <1>5, <1>6, <2>1
  <1>11. f[x] \in Int /\ f[y] \in Int /\ h[s \ {x, y}] \in Int
    BY <1>0, <1>6 DEF Summable
  <1> QED
    BY <1>4, <1>7, <1>9, <1>10, <1>11

\* A sum depends on what is summed and on nothing else.
LEMMA SameSum ==
  ASSUME NEW S, IsFiniteSet(S), NEW f, NEW h, Sums(h, f, S),
         NEW R, IsFiniteSet(R), NEW e, NEW g, Sums(g, e, R),
         NEW U \in SUBSET S, U \in SUBSET R, \A x \in U : f[x] = e[x]
  PROVE  h[U] = g[U]
  <1> DEFINE T == {n \in Nat : \E s \in SUBSET U : Cardinality(s) = n /\ h[s] # g[s]}
  <1>0. \A s \in SUBSET U : h[s] = SumStep(h, f, s) /\ g[s] = SumStep(g, e, s)
    BY DEF Sums
  <1>1. \A s \in SUBSET U : Cardinality(s) \in Nat
    BY FS_Subset, FS_CardinalityType
  <1>2. SUFFICES ASSUME T # {} PROVE FALSE
    BY <1>1
  <1>3. PICK n \in T : \A m \in T : n <= m
    BY <1>2, Least
  <1>4. PICK s \in SUBSET U : Cardinality(s) = n /\ h[s] # g[s]
    BY <1>3
  <1>5. s # {}
    BY <1>0, <1>4 DEF SumStep
  <1>6. IsFiniteSet(U)
    BY FS_Subset
  <1>7. h[s \ {AnyOf(s)}] = g[s \ {AnyOf(s)}]
    <2> DEFINE r == s \ {AnyOf(s)}
    <2>1. r \in SUBSET U /\ Cardinality(r) \in Nat /\ Cardinality(r) < n
      BY <1>1, <1>3, <1>4, <1>5, <1>6, Smaller
    <2> HIDE DEF r
    <2>2. Cardinality(r) \notin T
      BY <1>3, <2>1
    <2>3. h[r] = g[r]
      BY <2>1, <2>2
    <2> QED
      BY <2>3 DEF r
  <1>8. f[AnyOf(s)] = e[AnyOf(s)]
    BY <1>5, <1>6, Smaller
  <1> QED
    BY <1>0, <1>4, <1>5, <1>7, <1>8 DEF SumStep

\* The sum of all changes by what one summand changes, or by a new one.
LEMMA SumChanged ==
  ASSUME NEW S, IsFiniteSet(S), NEW f, Summable(f, S), NEW h, Sums(h, f, S),
         NEW R, IsFiniteSet(R), NEW e, Summable(e, R), NEW g, Sums(g, e, R),
         NEW t \in R, S = R \/ S = R \ {t}, \A x \in R \ {t} : f[x] = e[x]
  PROVE  /\ h[S] \in Int
         /\ g[R] = h[S] + e[t] - (IF t \in S THEN f[t] ELSE 0)
  <1>1. \A U \in SUBSET S : h[U] \in Int
    BY SumsAreInt
  <1>2. h[R \ {t}] = g[R \ {t}]
    <2> DEFINE U == R \ {t}
    <2>1. U \in SUBSET S /\ U \in SUBSET R /\ \A x \in U : f[x] = e[x]
      OBVIOUS
    <2> HIDE DEF U
    <2>2. h[U] = g[U]
      BY <2>1, SameSum
    <2> QED
      BY <2>2 DEF U
  <1>3. g[R] = e[t] + g[R \ {t}]
    <2>1. R \in SUBSET R
      OBVIOUS
    <2> QED
      BY <2>1, SumWithout
  <1>4. CASE S = R
    <2>1. S \in SUBSET S /\ t \in S
      BY <1>4
    <2>2. h[S] = f[t] + h[S \ {t}]
      BY <2>1, SumWithout
    <2>3. h[S] \in Int /\ h[S \ {t}] \in Int /\ f[t] \in Int /\ e[t] \in Int
      BY <1>1, <1>4 DEF Summable
    <2> QED
      BY <1>2, <1>3, <1>4, <2>2, <2>3
  <1>5. CASE S = R \ {t}
    <2>1. h[S] \in Int /\ e[t] \in Int /\ t \notin S
      BY <1>1, <1>5 DEF Summable
    <2> QED
      BY <1>2, <1>3, <1>5, <2>1
  <1> QED
    BY <1>4, <1>5

\* Nothing adds up to nothing.
LEMMA SumOfNothing ==
  ASSUME NEW S, IsFiniteSet(S), NEW f, \A x \in S : f[x] = 0, NEW h, Sums(h, f, S)
  PROVE  h[S] = 0
  <1> DEFINE T == {n \in Nat : \E s \in SUBSET S : Cardinality(s) = n /\ h[s] # 0}
  <1>0. \A s \in SUBSET S : h[s] = SumStep(h, f, s)
    BY DEF Sums
  <1>1. \A s \in SUBSET S : Cardinality(s) \in Nat
    BY FS_Subset, FS_CardinalityType
  <1>2. SUFFICES ASSUME T # {} PROVE FALSE
    BY <1>1
  <1>3. PICK n \in T : \A m \in T : n <= m
    BY <1>2, Least
  <1>4. PICK s \in SUBSET S : Cardinality(s) = n /\ h[s] # 0
    BY <1>3
  <1>5. s # {}
    BY <1>0, <1>4 DEF SumStep
  <1>6. h[s \ {AnyOf(s)}] = 0
    <2> DEFINE r == s \ {AnyOf(s)}
    <2>1. r \in SUBSET S /\ Cardinality(r) \in Nat /\ Cardinality(r) < n
      BY <1>1, <1>3, <1>4, <1>5, Smaller
    <2> HIDE DEF r
    <2>2. Cardinality(r) \notin T
      BY <1>3, <2>1
    <2>3. h[r] = 0
      BY <2>1, <2>2
    <2> QED
      BY <2>3 DEF r
  <1>7. f[AnyOf(s)] = 0
    BY <1>5, Smaller
  <1>8. h[s] = f[AnyOf(s)] + h[s \ {AnyOf(s)}]
    BY <1>0, <1>5 DEF SumStep
  <1>9. f[AnyOf(s)] + h[s \ {AnyOf(s)}] = 0
    BY <1>6, <1>7
  <1> QED
    BY <1>4, <1>8, <1>9

-----------------------------------------------------------------------------
\* What a history adds up to.
UsagesIn(history) == FoldSeq(LAMBDA p, n : p.usages_purchased + n, 0, history)

AmountIn(history) == FoldSeq(LAMBDA p, n : p.amount_paid + n, 0, history)

UsagesOf(history) == [i \in DOMAIN history |-> history[i].usages_purchased]

AmountsOf(history) == [i \in DOMAIN history |-> history[i].amount_paid]

LEMMA UsagesSummed ==
  ASSUME NEW history \in Seq(PaymentHistory)
  PROVE  \E h : /\ Sums(h, UsagesOf(history), DOMAIN history)
                /\ UsagesIn(history) = h[DOMAIN history]
  <1> DEFINE D == DOMAIN history
             f == UsagesOf(history)
             A(s) == CHOOSE x \in s : TRUE
             P(h) == h = [s \in SUBSET D |->
                             IF s = {} THEN 0
                             ELSE history[A(s)].usages_purchased + h[s \ {A(s)}]]
             H == CHOOSE h : P(h)
  <1>1. \A h : P(h) <=> Sums(h, f, D)
    <2>1. \A s \in SUBSET D : s # {} => A(s) \in D
      OBVIOUS
    <2>2. \A h : [s \in SUBSET D |->
                     IF s = {} THEN 0 ELSE history[A(s)].usages_purchased + h[s \ {A(s)}]]
                 = [s \in SUBSET D |-> SumStep(h, f, s)]
      BY <2>1 DEF SumStep, AnyOf, UsagesOf
    <2> QED
      BY <2>2 DEF Sums
  <1>2. UsagesIn(history) = H[D]
    BY DEF UsagesIn, FoldSeq, FoldFunction, FoldFunctionOnSet, MapThenFoldSet
  <1>3. IsFiniteSet(D)
    <2>1. D = 1..Len(history) /\ Len(history) \in Nat
      OBVIOUS
    <2> QED
      BY <2>1, FS_Interval
  <1> HIDE DEF P
  <1>4. P(H)
    BY <1>1, <1>3, SumsExist
  <1> HIDE DEF H
  <1> QED
    BY <1>1, <1>2, <1>4

LEMMA AmountsSummed ==
  ASSUME NEW history \in Seq(PaymentHistory)
  PROVE  \E h : /\ Sums(h, AmountsOf(history), DOMAIN history)
                /\ AmountIn(history) = h[DOMAIN history]
  <1> DEFINE D == DOMAIN history
             f == AmountsOf(history)
             A(s) == CHOOSE x \in s : TRUE
             P(h) == h = [s \in SUBSET D |->
                             IF s = {} THEN 0
                             ELSE history[A(s)].amount_paid + h[s \ {A(s)}]]
             H == CHOOSE h : P(h)
  <1>1. \A h : P(h) <=> Sums(h, f, D)
    <2>1. \A s \in SUBSET D : s # {} => A(s) \in D
      OBVIOUS
    <2>2. \A h : [s \in SUBSET D |->
                     IF s = {} THEN 0 ELSE history[A(s)].amount_paid + h[s \ {A(s)}]]
                 = [s \in SUBSET D |-> SumStep(h, f, s)]
      BY <2>1 DEF SumStep, AnyOf, AmountsOf
    <2> QED
      BY <2>2 DEF Sums
  <1>2. AmountIn(history) = H[D]
    BY DEF AmountIn, FoldSeq, FoldFunction, FoldFunctionOnSet, MapThenFoldSet
  <1>3. IsFiniteSet(D)
    <2>1. D = 1..Len(history) /\ Len(history) \in Nat
      OBVIOUS
    <2> QED
      BY <2>1, FS_Interval
  <1> HIDE DEF P
  <1>4. P(H)
    BY <1>1, <1>3, SumsExist
  <1> HIDE DEF H
  <1> QED
    BY <1>1, <1>2, <1>4

\* A payment adds itself to the sums of a history.
LEMMA SumsGrow ==
  ASSUME NEW history \in Seq(PaymentHistory), NEW p \in PaymentHistory
  PROVE  /\ UsagesIn(history) \in Int /\ AmountIn(history) \in Int
         /\ UsagesIn(Append(history, p)) = UsagesIn(history) + p.usages_purchased
         /\ AmountIn(Append(history, p)) = AmountIn(history) + p.amount_paid
  <1> DEFINE longer == Append(history, p)
             n == Len(history) + 1
             D == DOMAIN history
             E == DOMAIN longer
  <1>1. /\ longer \in Seq(PaymentHistory) /\ D = 1..Len(history) /\ E = 1..n
        /\ \A i \in D : longer[i] = history[i]
        /\ longer[n] = p /\ Len(history) \in Nat
    BY AppendProperties
  <1> HIDE DEF longer
  <1>2. /\ IsFiniteSet(D) /\ IsFiniteSet(E) /\ n \in E /\ n \notin D /\ D = E \ {n}
    <2>1. IsFiniteSet(1..Len(history)) /\ IsFiniteSet(1..n)
      BY <1>1, FS_Interval
    <2> QED
      BY <1>1, <2>1
  <1>3. \A k \in PaymentHistory : k.usages_purchased \in Nat /\ k.amount_paid \in Nat
    BY DEF PaymentHistory
  <1>4. /\ Summable(UsagesOf(history), D) /\ Summable(UsagesOf(longer), E)
        /\ Summable(AmountsOf(history), D) /\ Summable(AmountsOf(longer), E)
    <2>1. /\ \A i \in D : history[i] \in PaymentHistory
          /\ \A i \in E : longer[i] \in PaymentHistory
      BY <1>1
    <2> QED
      BY <1>3, <2>1 DEF Summable, UsagesOf, AmountsOf
  <1>5. /\ \A i \in E \ {n} : UsagesOf(history)[i] = UsagesOf(longer)[i]
        /\ \A i \in E \ {n} : AmountsOf(history)[i] = AmountsOf(longer)[i]
        /\ UsagesOf(longer)[n] = p.usages_purchased /\ AmountsOf(longer)[n] = p.amount_paid
    BY <1>1, <1>2 DEF UsagesOf, AmountsOf
  <1> HIDE DEF n, D, E
  <1>6. UsagesIn(history) \in Int /\ UsagesIn(longer) = UsagesIn(history) + p.usages_purchased
    <2>1. PICK h : Sums(h, UsagesOf(history), D) /\ UsagesIn(history) = h[D]
      BY UsagesSummed DEF D
    <2>2. PICK g : Sums(g, UsagesOf(longer), E) /\ UsagesIn(longer) = g[E]
      BY <1>1, UsagesSummed DEF E
    <2>3. /\ h[D] \in Int
          /\ g[E] = h[D] + UsagesOf(longer)[n] - (IF n \in D THEN UsagesOf(history)[n] ELSE 0)
      BY <1>2, <1>4, <1>5, <2>1, <2>2, SumChanged
    <2> QED
      BY <1>2, <1>3, <1>5, <2>1, <2>2, <2>3
  <1>7. AmountIn(history) \in Int /\ AmountIn(longer) = AmountIn(history) + p.amount_paid
    <2>1. PICK h : Sums(h, AmountsOf(history), D) /\ AmountIn(history) = h[D]
      BY AmountsSummed DEF D
    <2>2. PICK g : Sums(g, AmountsOf(longer), E) /\ AmountIn(longer) = g[E]
      BY <1>1, AmountsSummed DEF E
    <2>3. /\ h[D] \in Int
          /\ g[E] = h[D] + AmountsOf(longer)[n] - (IF n \in D THEN AmountsOf(history)[n] ELSE 0)
      BY <1>2, <1>4, <1>5, <2>1, <2>2, SumChanged
    <2> QED
      BY <1>2, <1>3, <1>5, <2>1, <2>2, <2>3
  <1> QED
    BY <1>6, <1>7 DEF longer

LEMMA EmptySums == UsagesIn(<<>>) = 0 /\ AmountIn(<<>>) = 0
  <1>1. <<>> \in Seq(PaymentHistory) /\ DOMAIN <<>> = {}
    OBVIOUS
  <1>2. PICK h : Sums(h, UsagesOf(<<>>), {}) /\ UsagesIn(<<>>) = h[{}]
    BY <1>1, UsagesSummed
  <1>3. PICK g : Sums(g, AmountsOf(<<>>), {}) /\ AmountIn(<<>>) = g[{}]
    BY <1>1, AmountsSummed
  <1> QED
    BY <1>2, <1>3 DEF Sums, SumStep

-----------------------------------------------------------------------------
\* What functions of the tokens and of the groups add up to.
BalanceIn(balances) == MapThenSumSet(LAMBDA t : balances[t], Tokens)

AmountInAll(histories) == MapThenSumSet(LAMBDA g : AmountIn(histories[g]), Groups)

AmountsByGroup(histories) == [g \in Groups |-> AmountIn(histories[g])]

LEMMA BalanceSummed ==
  ASSUME NEW balances
  PROVE  \E h : Sums(h, balances, Tokens) /\ BalanceIn(balances) = h[Tokens]
  <1> DEFINE A(s) == CHOOSE x \in s : TRUE
             P(h) == h = [s \in SUBSET Tokens |->
                             IF s = {} THEN 0 ELSE balances[A(s)] + h[s \ {A(s)}]]
             H == CHOOSE h : P(h)
  <1>1. \A h : P(h) <=> Sums(h, balances, Tokens)
    BY DEF Sums, SumStep, AnyOf
  <1>2. BalanceIn(balances) = H[Tokens]
    BY DEF BalanceIn, MapThenSumSet, MapThenFoldSet
  <1> HIDE DEF P
  <1>3. P(H)
    BY <1>1, SumsExist, AutoShareGroupsAssumption
  <1> HIDE DEF H
  <1> QED
    BY <1>1, <1>2, <1>3

LEMMA AmountInAllSummed ==
  ASSUME NEW histories
  PROVE  \E h : /\ Sums(h, AmountsByGroup(histories), Groups)
                /\ AmountInAll(histories) = h[Groups]
  <1> DEFINE f == AmountsByGroup(histories)
             A(s) == CHOOSE x \in s : TRUE
             P(h) == h = [s \in SUBSET Groups |->
                             IF s = {} THEN 0 ELSE AmountIn(histories[A(s)]) + h[s \ {A(s)}]]
             H == CHOOSE h : P(h)
  <1>1. \A h : P(h) <=> Sums(h, f, Groups)
    <2>1. \A s \in SUBSET Groups : s # {} => A(s) \in Groups
      OBVIOUS
    <2>2. \A h : [s \in SUBSET Groups |->
                     IF s = {} THEN 0 ELSE AmountIn(histories[A(s)]) + h[s \ {A(s)}]]
                 = [s \in SUBSET Groups |-> SumStep(h, f, s)]
      BY <2>1 DEF SumStep, AnyOf, AmountsByGroup
    <2> QED
      BY <2>2 DEF Sums
  <1>2. AmountInAll(histories) = H[Groups]
    BY DEF AmountInAll, MapThenSumSet, MapThenFoldSet
  <1> HIDE DEF P
  <1>3. P(H)
    BY <1>1, SumsExist, AutoShareGroupsAssumption
  <1> HIDE DEF H
  <1> QED
    BY <1>1, <1>2, <1>3

LEMMA BalanceChanged ==
  ASSUME NEW b \in [Tokens -> Nat], NEW c \in [Tokens -> Nat], NEW t \in Tokens,
         \A x \in Tokens \ {t} : b[x] = c[x]
  PROVE  BalanceIn(b) \in Int /\ BalanceIn(c) = BalanceIn(b) + c[t] - b[t]
  <1>1. PICK h : Sums(h, b, Tokens) /\ BalanceIn(b) = h[Tokens]
    BY BalanceSummed
  <1>2. PICK g : Sums(g, c, Tokens) /\ BalanceIn(c) = g[Tokens]
    BY BalanceSummed
  <1>3. Summable(b, Tokens) /\ Summable(c, Tokens) /\ IsFiniteSet(Tokens)
    BY AutoShareGroupsAssumption DEF Summable
  <1>4. /\ h[Tokens] \in Int
        /\ g[Tokens] = h[Tokens] + c[t] - (IF t \in Tokens THEN b[t] ELSE 0)
    BY <1>1, <1>2, <1>3, SumChanged
  <1> QED
    BY <1>1, <1>2, <1>4

LEMMA AmountsChanged ==
  ASSUME NEW b \in [Groups -> Seq(PaymentHistory)], NEW c \in [Groups -> Seq(PaymentHistory)],
         NEW g \in Groups, \A x \in Groups \ {g} : b[x] = c[x]
  PROVE  /\ AmountInAll(b) \in Int
         /\ AmountInAll(c) = AmountInAll(b) + AmountIn(c[g]) - AmountIn(b[g])
  <1> DEFINE f == AmountsByGroup(b)
             e == AmountsByGroup(c)
  <1>1. PICK h : Sums(h, f, Groups) /\ AmountInAll(b) = h[Groups]
    BY AmountInAllSummed
  <1>2. PICK k : Sums(k, e, Groups) /\ AmountInAll(c) = k[Groups]
    BY AmountInAllSummed
  <1>3. \A history \in Seq(PaymentHistory) : AmountIn(history) \in Int
    <2> SUFFICES ASSUME NEW history \in Seq(PaymentHistory) PROVE AmountIn(history) \in Int
      OBVIOUS
    <2> DEFINE D == DOMAIN history
    <2>1. PICK q : Sums(q, AmountsOf(history), D) /\ AmountIn(history) = q[D]
      BY AmountsSummed
    <2>2. IsFiniteSet(D)
      <3>1. D = 1..Len(history) /\ Len(history) \in Nat
        OBVIOUS
      <3> QED
        BY <3>1, FS_Interval
    <2>3. Summable(AmountsOf(history), D)
      <3>1. \A p \in PaymentHistory : p.amount_paid \in Nat
        BY DEF PaymentHistory
      <3>2. \A i \in D : history[i] \in PaymentHistory
        OBVIOUS
      <3> QED
        BY <3>1, <3>2 DEF Summable, AmountsOf
    <2>4. D \in SUBSET D
      OBVIOUS
    <2> HIDE DEF D
    <2>5. \A s \in SUBSET D : q[s] \in Int
      BY <2>1, <2>2, <2>3, SumsAreInt
    <2> QED
      BY <2>1, <2>4, <2>5
  <1>4. Summable(f, Groups) /\ Summable(e, Groups) /\ IsFiniteSet(Groups)
    BY <1>3, AutoShareGroupsAssumption DEF Summable, AmountsByGroup
  <1>5. /\ \A x \in Groups \ {g} : f[x] = e[x]
        /\ f[g] = AmountIn(b[g]) /\ e[g] = AmountIn(c[g])
    BY DEF AmountsByGroup
  <1> HIDE DEF f, e
  <1>6. /\ h[Groups] \in Int
        /\ k[Groups] = h[Groups] + e[g] - (IF g \in Groups THEN f[g] ELSE 0)
    BY <1>1, <1>2, <1>4, <1>5, SumChanged
  <1> QED
    BY <1>1, <1>2, <1>5, <1>6

-----------------------------------------------------------------------------
\* The payments of u for g in a history of u and in one of g.
Same(ofUser, ofGroup, u, g) ==
    LET mine == {n \in DOMAIN ofUser : ofUser[n].group_id = g}
        its == {n \in DOMAIN ofGroup : ofGroup[n].user = u}
    IN \E f \in Bijection(mine, its) :
         \A m, n \in mine : ofUser[m] = ofGroup[f[m]] /\ (m < n => f[m] < f[n])

LEMMA SameOrNot ==
  ASSUME NEW u, NEW g
  PROVE  SamePayments(u, g) <=> Same(user_history[u], group_history[g], u, g)
  BY DEF SamePayments, Same

\* A payment that is not of u, or not for g, changes nothing between them.
LEMMA SameWithout ==
  ASSUME NEW a \in Seq(PaymentHistory), NEW b \in Seq(PaymentHistory), NEW u, NEW g,
         Same(a, b, u, g), NEW p \in PaymentHistory
  PROVE  /\ p.group_id # g => Same(Append(a, p), b, u, g)
         /\ p.user # u => Same(a, Append(b, p), u, g)
  <1> DEFINE Mine(h) == {n \in DOMAIN h : h[n].group_id = g}
             Its(h) == {n \in DOMAIN h : h[n].user = u}
             longerA == Append(a, p)
             longerB == Append(b, p)
  <1>1. PICK f \in Bijection(Mine(a), Its(b)) :
               \A m, n \in Mine(a) : a[m] = b[f[m]] /\ (m < n => f[m] < f[n])
    BY DEF Same
  <1>2. /\ DOMAIN longerA = DOMAIN a \cup {Len(a) + 1} /\ longerA[Len(a) + 1] = p
        /\ \A n \in DOMAIN a : longerA[n] = a[n]
    BY AppendProperties
  <1>3. /\ DOMAIN longerB = DOMAIN b \cup {Len(b) + 1} /\ longerB[Len(b) + 1] = p
        /\ \A n \in DOMAIN b : longerB[n] = b[n]
    BY AppendProperties
  <1> HIDE DEF longerA, longerB
  <1>4. ASSUME p.group_id # g PROVE Same(longerA, b, u, g)
    <2>1. Mine(longerA) = Mine(a)
      BY <1>2, <1>4
    <2>2. \A m, n \in Mine(longerA) : longerA[m] = b[f[m]] /\ (m < n => f[m] < f[n])
      BY <1>1, <1>2, <2>1
    <2> QED
      BY <1>1, <2>1, <2>2 DEF Same
  <1>5. ASSUME p.user # u PROVE Same(a, longerB, u, g)
    <2>1. Its(longerB) = Its(b)
      BY <1>3, <1>5
    <2>2. \A m \in Mine(a) : f[m] \in Its(b)
      BY <1>1 DEF Bijection, Injection
    <2>3. \A m, n \in Mine(a) : a[m] = longerB[f[m]] /\ (m < n => f[m] < f[n])
      BY <1>1, <1>3, <2>2
    <2> QED
      BY <1>1, <2>1, <2>3 DEF Same
  <1> QED
    BY <1>4, <1>5 DEF longerA, longerB

\* A payment of u for g is the last one in both histories.
LEMMA SameWith ==
  ASSUME NEW a \in Seq(PaymentHistory), NEW b \in Seq(PaymentHistory), NEW u, NEW g,
         Same(a, b, u, g), NEW p \in PaymentHistory, p.user = u, p.group_id = g
  PROVE  Same(Append(a, p), Append(b, p), u, g)
  <1> DEFINE Mine(h) == {n \in DOMAIN h : h[n].group_id = g}
             Its(h) == {n \in DOMAIN h : h[n].user = u}
             c == Append(a, p)
             d == Append(b, p)
             i == Len(a) + 1
             j == Len(b) + 1
  <1>1. PICK f \in Bijection(Mine(a), Its(b)) :
               \A m, n \in Mine(a) : a[m] = b[f[m]] /\ (m < n => f[m] < f[n])
    BY DEF Same
  <1>2. /\ DOMAIN c = DOMAIN a \cup {i} /\ c[i] = p
        /\ \A n \in DOMAIN a : c[n] = a[n] /\ n \in Nat /\ n < i
        /\ i \in Nat
    BY AppendProperties
  <1>3. /\ DOMAIN d = DOMAIN b \cup {j} /\ d[j] = p
        /\ \A n \in DOMAIN b : d[n] = b[n] /\ n \in Nat /\ n < j
        /\ j \in Nat
    BY AppendProperties
  <1> HIDE DEF c, d, i, j
  <1>4. i \notin DOMAIN a /\ j \notin DOMAIN b
    BY <1>2, <1>3
  <1>5. Mine(c) = Mine(a) \cup {i} /\ Its(d) = Its(b) \cup {j}
    BY <1>2, <1>3, <1>4
  <1>6. /\ f \in [Mine(a) -> Its(b)]
        /\ \A m, n \in Mine(a) : f[m] = f[n] => m = n
        /\ \A k \in Its(b) : \E m \in Mine(a) : f[m] = k
    BY <1>1 DEF Bijection, Injection, Surjection, IsInjective
  <1> DEFINE e == [m \in Mine(c) |-> IF m = i THEN j ELSE f[m]]
  <1>7. /\ e[i] = j /\ \A m \in Mine(a) : e[m] = f[m] /\ m # i /\ f[m] # j
        /\ e \in [Mine(c) -> Its(d)]
    BY <1>4, <1>5, <1>6
  <1> HIDE DEF e
  <1>8. e \in Bijection(Mine(c), Its(d))
    <2>1. \A m, n \in Mine(c) : e[m] = e[n] => m = n
      BY <1>5, <1>6, <1>7
    <2>2. \A k \in Its(d) : \E m \in Mine(c) : e[m] = k
      BY <1>5, <1>6, <1>7
    <2>3. e \in Injection(Mine(c), Its(d))
      BY <1>7, <2>1 DEF Injection, IsInjective
    <2>4. e \in Surjection(Mine(c), Its(d))
      BY <1>7, <2>2 DEF Surjection
    <2> QED
      BY <2>3, <2>4 DEF Bijection
  <1>9. ASSUME NEW m \in Mine(c), NEW n \in Mine(c)
        PROVE  c[m] = d[e[m]] /\ (m < n => e[m] < e[n])
    <2>1. c[m] = d[e[m]]
      <3>1. CASE m = i
        BY <1>2, <1>3, <1>7, <3>1
      <3>2. CASE m \in Mine(a)
        <4>1. e[m] \in DOMAIN b /\ a[m] = b[e[m]]
          BY <1>1, <1>6, <1>7, <3>2
        <4> QED
          BY <1>2, <1>3, <3>2, <4>1
      <3> QED
        BY <1>5, <3>1, <3>2
    <2>2. ASSUME m < n PROVE e[m] < e[n]
      <3>1. m \in Mine(a)
        BY <1>2, <1>5, <2>2
      <3>2. CASE n \in Mine(a)
        BY <1>1, <1>7, <2>2, <3>1, <3>2
      <3>3. CASE n = i
        <4>1. e[m] = f[m] /\ f[m] \in DOMAIN b /\ e[n] = j
          BY <1>6, <1>7, <3>1, <3>3
        <4> QED
          BY <1>3, <4>1
      <3> QED
        BY <1>5, <3>2, <3>3
    <2> QED
      BY <2>1, <2>2
  <1>10. Same(c, d, u, g)
    BY <1>8, <1>9 DEF Same
  <1> QED
    BY <1>10 DEF c, d

-----------------------------------------------------------------------------
\* The other parts of PaymentsAccounted, and that payments for a group begin with it.
UsagesPaid ==
    \A g \in Groups : IF g \in DOMAIN groups
                      THEN groups[g].total_usages_paid = UsagesIn(group_history[g])
                      ELSE group_history[g] = <<>>

HistoriesAgree ==
    \A u \in Users, g \in Groups : Same(user_history[u], group_history[g], u, g)

MoneyBalances == BalanceIn(balance) + withdrawn = AmountInAll(group_history)

BooksClosed == UsagesPaid /\ HistoriesAgree /\ MoneyBalances

LEMMA PaymentParts == GroupsOK /\ UsagesAccounted /\ BooksClosed => PaymentsAccounted
  <1>1. \A g : purchased(g) = UsagesIn(group_history[g])
    BY DEF purchased, UsagesIn, FoldSeq, FoldFunction, FoldFunctionOnSet, MapThenFoldSet
  <1>2. held = BalanceIn(balance)
    BY DEF held, BalanceIn, MapThenSumSet, MapThenFoldSet
  <1>3. received = AmountInAll(group_history)
    BY DEF received, AmountInAll, AmountIn, amountPaid, MapThenSumSet, FoldSeq, FoldFunction,
           FoldFunctionOnSet, MapThenFoldSet
  <1>4. ASSUME GroupsOK, BooksClosed
        PROVE  /\ \A g \in DOMAIN groups : groups[g].total_usages_paid = purchased(g)
               /\ \A u \in Users, g \in Groups : SamePayments(u, g)
    BY <1>1, <1>4, SameOrNot DEF GroupsOK, BooksClosed, UsagesPaid, HistoriesAgree
  <1> QED
    BY <1>2, <1>3, <1>4 DEF PaymentsAccounted, BooksClosed, MoneyBalances

-----------------------------------------------------------------------------
\* What a payment p of u for g does to the books.
Booked(u, g, t, p) ==
    /\ p \in PaymentHistory /\ p.user = u /\ p.group_id = g
    /\ user_history' = [user_history EXCEPT ![u] = Append(user_history[u], p)]
    /\ group_history' = [group_history EXCEPT ![g] = Append(group_history[g], p)]
    /\ balance' = [balance EXCEPT ![t] = balance[t] + p.amount_paid]
    /\ withdrawn' = withdrawn

LEMMA PaymentBooked ==
  ASSUME SettingsOK, NEW u \in Users, NEW g \in Groups, NEW n \in Nat, NEW t \in Tokens,
         MoneyOK, pay(u, g, n, t)
  PROVE  \E p : Booked(u, g, t, p) /\ p.usages_purchased = n
  <1> DEFINE amount == n * usage_fee
             p == [user |-> u, group_id |-> g, usages_purchased |-> n, amount_paid |-> amount]
  <1>1. amount \in Nat
    BY AutoShareGroupsAssumption DEF SettingsOK
  <1>2. /\ user_history' = [user_history EXCEPT ![u] = Append(user_history[u], p)]
        /\ group_history' = [group_history EXCEPT ![g] = Append(group_history[g], p)]
        /\ balance' = [balance EXCEPT ![t] = balance[t] + amount]
        /\ withdrawn' = withdrawn
    BY DEF pay, record_payment, MoneyOK
  <1> HIDE DEF amount
  <1>3. /\ p \in PaymentHistory /\ p.user = u /\ p.group_id = g
        /\ p.usages_purchased = n /\ p.amount_paid = amount
    BY <1>1 DEF PaymentHistory
  <1> HIDE DEF p
  <1> QED
    BY <1>2, <1>3 DEF Booked

LEMMA HistoriesAfterPayment ==
  ASSUME MoneyOK, HistoriesAgree, NEW u \in Users, NEW g \in Groups, NEW t \in Tokens, NEW p,
         Booked(u, g, t, p)
  PROVE  HistoriesAgree'
  <1> SUFFICES ASSUME NEW v \in Users, NEW h \in Groups
               PROVE  Same(user_history'[v], group_history'[h], v, h)
    BY DEF HistoriesAgree
  <1>1. /\ user_history[v] \in Seq(PaymentHistory) /\ group_history[h] \in Seq(PaymentHistory)
        /\ Same(user_history[v], group_history[h], v, h)
        /\ p \in PaymentHistory /\ p.user = u /\ p.group_id = g
    BY DEF MoneyOK, HistoriesAgree, Booked
  <1>2. /\ user_history'[v] = IF v = u THEN Append(user_history[v], p) ELSE user_history[v]
        /\ group_history'[h] = IF h = g THEN Append(group_history[h], p) ELSE group_history[h]
    BY DEF MoneyOK, Booked
  <1>3. CASE v = u /\ h = g
    BY <1>1, <1>2, <1>3, SameWith
  <1>4. CASE v = u /\ h # g
    BY <1>1, <1>2, <1>4, SameWithout
  <1>5. CASE v # u /\ h = g
    BY <1>1, <1>2, <1>5, SameWithout
  <1>6. CASE v # u /\ h # g
    BY <1>1, <1>2, <1>6
  <1> QED
    BY <1>3, <1>4, <1>5, <1>6

LEMMA MoneyAfterPayment ==
  ASSUME MoneyOK, MoneyOK', MoneyBalances, NEW u \in Users, NEW g \in Groups, NEW t \in Tokens,
         NEW p, Booked(u, g, t, p)
  PROVE  MoneyBalances'
  <1>1. /\ balance \in [Tokens -> Nat] /\ balance' \in [Tokens -> Nat]
        /\ group_history \in [Groups -> Seq(PaymentHistory)]
        /\ group_history' \in [Groups -> Seq(PaymentHistory)]
        /\ withdrawn \in Nat
    BY DEF MoneyOK
  <1>2. /\ balance'[t] = balance[t] + p.amount_paid
        /\ \A x \in Tokens \ {t} : balance[x] = balance'[x]
        /\ group_history'[g] = Append(group_history[g], p)
        /\ \A x \in Groups \ {g} : group_history[x] = group_history'[x]
        /\ withdrawn' = withdrawn /\ p \in PaymentHistory
    BY <1>1 DEF Booked
  <1>3. /\ BalanceIn(balance) \in Int
        /\ BalanceIn(balance') = BalanceIn(balance) + balance'[t] - balance[t]
    BY <1>1, <1>2, BalanceChanged
  <1>4. /\ AmountInAll(group_history) \in Int
        /\ AmountInAll(group_history')
             = AmountInAll(group_history) + AmountIn(group_history'[g]) - AmountIn(group_history[g])
    BY <1>1, <1>2, AmountsChanged
  <1>5. /\ AmountIn(group_history[g]) \in Int
        /\ AmountIn(group_history'[g]) = AmountIn(group_history[g]) + p.amount_paid
    BY <1>1, <1>2, SumsGrow
  <1>6. p.amount_paid \in Nat /\ balance[t] \in Nat /\ withdrawn \in Int
    BY <1>1, <1>2 DEF PaymentHistory
  <1>7. BalanceIn(balance') = BalanceIn(balance) + p.amount_paid
    BY <1>2, <1>3, <1>6
  <1>8. AmountInAll(group_history') = AmountInAll(group_history) + p.amount_paid
    BY <1>4, <1>5, <1>6
  <1> QED
    BY <1>2, <1>3, <1>4, <1>6, <1>7, <1>8 DEF MoneyBalances

LEMMA MoneyAfterWithdrawal ==
  ASSUME MoneyOK, MoneyOK', MoneyBalances, NEW u \in Users, NEW t \in Tokens,
         NEW n \in 1..balance[t], withdraw(u, t, n)
  PROVE  MoneyBalances'
  <1>1. balance \in [Tokens -> Nat] /\ balance' \in [Tokens -> Nat] /\ withdrawn \in Nat
    BY DEF MoneyOK
  <1>2. /\ balance[t] \in Nat /\ n \in Nat
        /\ balance'[t] = balance[t] - n /\ withdrawn' = withdrawn + n
        /\ \A x \in Tokens \ {t} : balance[x] = balance'[x]
        /\ group_history' = group_history
    BY <1>1 DEF withdraw
  <1>3. /\ BalanceIn(balance) \in Int
        /\ BalanceIn(balance') = BalanceIn(balance) + balance'[t] - balance[t]
    BY <1>1, <1>2, BalanceChanged
  <1> QED
    BY <1>1, <1>2, <1>3 DEF MoneyBalances

-----------------------------------------------------------------------------
\* The steps that move money.
LEMMA MoneyCases ==
  ASSUME Next
  PROVE  \/ UNCHANGED money
         \/ \E u \in Users, t \in Tokens : \E n \in 1..balance[t] : withdraw(u, t, n)
         \/ \E u \in Users, t \in Tokens, g \in Groups, n \in 1..MaxUsages :
               create_autoshare(g, u, n, t)
         \/ \E u \in Users, t \in Tokens, g \in DOMAIN groups, n \in 1..MaxUsages :
               g \in Groups /\ topup_subscription(g, n, t, u)
  BY StepCases DEF initialize_admin, accept_ownership, transfer_admin,
     initiate_ownership_transfer, pause, unpause, set_usage_fee, add_supported_token,
     remove_supported_token, cancel_subscription,
     reduce_usage, deactivate_group, activate_group, add_group_member, update_members,
     setMembers

\* A step that leaves the groups there are, what they paid for, and their history.
LEMMA UsagesPaidKept ==
  ASSUME UsagesPaid, UNCHANGED group_history, DOMAIN groups' = DOMAIN groups,
         \A g \in DOMAIN groups : groups'[g].total_usages_paid = groups[g].total_usages_paid
  PROVE  UsagesPaid'
  BY DEF UsagesPaid

LEMMA UsagesPaidStep ==
  SettingsOK /\ GroupsOK /\ MoneyOK /\ UsagesPaid /\ [Next]_vars => UsagesPaid'
  <1> SUFFICES ASSUME SettingsOK, GroupsOK, MoneyOK, UsagesPaid, [Next]_vars
               PROVE  UsagesPaid'
    OBVIOUS
  <1>1. ASSUME NEW g \in Groups, NEW u \in Users, NEW t \in Tokens, NEW n \in 1..MaxUsages,
               NEW p, Booked(u, g, t, p), p.usages_purchased = n,
               DOMAIN groups' = DOMAIN groups \cup {g},
               \A h \in DOMAIN groups \ {g} : groups'[h] = groups[h],
               groups'[g].total_usages_paid
                 = n + IF g \in DOMAIN groups THEN groups[g].total_usages_paid ELSE 0
        PROVE  UsagesPaid'
    <2>1. /\ group_history[g] \in Seq(PaymentHistory) /\ p \in PaymentHistory
          /\ group_history'[g] = Append(group_history[g], p)
          /\ \A h \in Groups \ {g} : group_history'[h] = group_history[h]
      BY <1>1 DEF Booked, MoneyOK
    <2>2. /\ UsagesIn(group_history[g]) \in Int
          /\ UsagesIn(group_history'[g]) = UsagesIn(group_history[g]) + n
      BY <1>1, <2>1, SumsGrow
    <2>3. UsagesIn(group_history[g])
            = IF g \in DOMAIN groups THEN groups[g].total_usages_paid ELSE 0
      BY EmptySums DEF UsagesPaid
    <2>4. groups'[g].total_usages_paid = UsagesIn(group_history'[g]) /\ g \in DOMAIN groups'
      BY <1>1, <2>2, <2>3
    <2>5. ASSUME NEW h \in Groups, h # g
          PROVE  IF h \in DOMAIN groups'
                 THEN groups'[h].total_usages_paid = UsagesIn(group_history'[h])
                 ELSE group_history'[h] = <<>>
      <3>1. /\ group_history'[h] = group_history[h] /\ (h \in DOMAIN groups' <=> h \in DOMAIN groups)
            /\ h \in DOMAIN groups => groups'[h] = groups[h]
        BY <1>1, <2>1, <2>5
      <3> QED
        BY <3>1 DEF UsagesPaid
    <2> QED
      BY <2>4, <2>5 DEF UsagesPaid
  <1>2. CASE \E u \in Users, t \in Tokens, g \in Groups, n \in 1..MaxUsages :
                create_autoshare(g, u, n, t)
    <2> PICK u \in Users, t \in Tokens, g \in Groups, n \in 1..MaxUsages :
               create_autoshare(g, u, n, t)
      BY <1>2
    <2> DEFINE r == [creator |-> u, usage_count |-> n, total_usages_paid |-> n,
                     members |-> <<>>, is_active |-> TRUE]
    <2>1. /\ groups' = [h \in DOMAIN groups \cup {g} |-> IF h = g THEN r ELSE groups[h]]
          /\ g \notin DOMAIN groups /\ pay(u, g, n, t)
      BY DEF create_autoshare
    <2>2. r.total_usages_paid = n /\ n \in Nat
      OBVIOUS
    <2> HIDE DEF r
    <2>3. PICK p : Booked(u, g, t, p) /\ p.usages_purchased = n
      BY <2>1, <2>2, PaymentBooked
    <2>4. /\ DOMAIN groups' = DOMAIN groups \cup {g} /\ groups'[g] = r
          /\ \A h \in DOMAIN groups \ {g} : groups'[h] = groups[h]
      BY <2>1
    <2>5. groups'[g].total_usages_paid
            = n + IF g \in DOMAIN groups THEN groups[g].total_usages_paid ELSE 0
      BY <2>1, <2>2, <2>4
    <2> QED
      BY <1>1, <2>3, <2>4, <2>5
  <1>3. CASE \E u \in Users, t \in Tokens, g \in DOMAIN groups, n \in 1..MaxUsages :
                topup_subscription(g, n, t, u)
    <2> PICK u \in Users, t \in Tokens, g \in DOMAIN groups, n \in 1..MaxUsages :
               topup_subscription(g, n, t, u)
      BY <1>3
    <2> DEFINE m == groups[g].usage_count + n
               k == groups[g].total_usages_paid + n
               r == [groups[g] EXCEPT !.usage_count = m, !.total_usages_paid = k]
    <2>1. groups' = [groups EXCEPT ![g] = r] /\ pay(u, g, n, t)
      BY DEF topup_subscription, GroupsOK
    <2>2. k = n + groups[g].total_usages_paid /\ n \in Nat /\ g \in Groups
      BY CountsNat
    <2> HIDE DEF m, k
    <2>3. r.total_usages_paid = k
      BY CountsNat, CountFields
    <2> HIDE DEF r
    <2>4. PICK p : Booked(u, g, t, p) /\ p.usages_purchased = n
      BY <2>1, <2>2, PaymentBooked
    <2>5. /\ DOMAIN groups' = DOMAIN groups \cup {g} /\ groups'[g] = r
          /\ \A h \in DOMAIN groups \ {g} : groups'[h] = groups[h]
      BY <2>1, CountsAfter
    <2>6. groups'[g].total_usages_paid
            = n + IF g \in DOMAIN groups THEN groups[g].total_usages_paid ELSE 0
      BY <2>2, <2>3, <2>5
    <2> QED
      BY <1>1, <2>2, <2>4, <2>5, <2>6
  <1>4. ASSUME NEW g \in DOMAIN groups, NEW r, groups' = [groups EXCEPT ![g] = r],
               r.total_usages_paid = groups[g].total_usages_paid, UNCHANGED group_history
        PROVE  UsagesPaid'
    <2>1. /\ DOMAIN groups' = DOMAIN groups /\ groups'[g] = r
          /\ \A h \in DOMAIN groups \ {g} : groups'[h] = groups[h]
      BY <1>4, CountsAfter
    <2> QED
      BY <1>4, <2>1, UsagesPaidKept
  <1>5. CASE \E u \in Users, g \in DOMAIN groups : cancel_subscription(g, u)
    <2> PICK u \in Users, g \in DOMAIN groups : cancel_subscription(g, u)
      BY <1>5
    <2> DEFINE r == [groups[g] EXCEPT !.is_active = FALSE, !.usage_count = 0]
    <2>1. groups' = [groups EXCEPT ![g] = r] /\ UNCHANGED group_history
      BY DEF cancel_subscription, money, GroupsOK
    <2>2. r.total_usages_paid = groups[g].total_usages_paid
      BY CountsNat, CountFields
    <2> HIDE DEF r
    <2> QED
      BY <1>4, <2>1, <2>2
  <1>6. CASE \E u \in Users, g \in DOMAIN groups : reduce_usage(g, u)
    <2> PICK u \in Users, g \in DOMAIN groups : reduce_usage(g, u)
      BY <1>6
    <2> DEFINE m == groups[g].usage_count - 1
               r == [groups[g] EXCEPT !.usage_count = m]
    <2>1. groups' = [groups EXCEPT ![g] = r] /\ UNCHANGED group_history
      BY DEF reduce_usage, money, GroupsOK
    <2>2. r.total_usages_paid = groups[g].total_usages_paid
      BY CountsNat, CountFields
    <2> HIDE DEF r
    <2> QED
      BY <1>4, <2>1, <2>2
  <1>7. CASE \E u \in Users, g \in DOMAIN groups : deactivate_group(g, u) \/ activate_group(g, u)
    <2> PICK u \in Users, g \in DOMAIN groups : deactivate_group(g, u) \/ activate_group(g, u)
      BY <1>7
    <2>1. PICK b \in BOOLEAN :
                 groups' = [groups EXCEPT ![g] = [groups[g] EXCEPT !.is_active = b]]
      BY DEF deactivate_group, activate_group, GroupsOK
    <2> DEFINE r == [groups[g] EXCEPT !.is_active = b]
    <2>2. groups' = [groups EXCEPT ![g] = r] /\ UNCHANGED group_history
      BY <2>1 DEF deactivate_group, activate_group, money
    <2>3. r.total_usages_paid = groups[g].total_usages_paid
      BY CountsNat, CountFields
    <2> HIDE DEF r
    <2> QED
      BY <1>4, <2>2, <2>3
  <1>8. CASE \E g \in DOMAIN groups, ms \in Seq(GroupMember) : setMembers(g, ms)
    <2> PICK g \in DOMAIN groups, ms \in Seq(GroupMember) : setMembers(g, ms)
      BY <1>8
    <2> DEFINE r == [groups[g] EXCEPT !.members = ms]
    <2>1. groups' = [groups EXCEPT ![g] = r] /\ UNCHANGED group_history
      BY DEF setMembers, money, GroupsOK
    <2>2. r.total_usages_paid = groups[g].total_usages_paid
      BY CountsNat, CountFields
    <2> HIDE DEF r
    <2> QED
      BY <1>4, <2>1, <2>2
  <1>9. CASE UNCHANGED <<groups, usages>> /\ Next
    <2>1. CASE UNCHANGED money
      BY <1>9, <2>1, UsagesPaidKept DEF money
    <2>2. CASE \E u \in Users, t \in Tokens : \E n \in 1..balance[t] : withdraw(u, t, n)
      BY <1>9, <2>2, UsagesPaidKept DEF withdraw
    <2> QED
      BY <1>2, <1>3, <1>9, <2>1, <2>2, MoneyCases
  <1>10. CASE UNCHANGED vars
    BY <1>10, UsagesPaidKept DEF vars, money
  <1> QED
    BY <1>2, <1>3, <1>5, <1>6, <1>7, <1>8, <1>9, <1>10, GroupCases

LEMMA BooksStep == TypeOK /\ TypeOK' /\ BooksClosed /\ [Next]_vars => BooksClosed'
  <1> SUFFICES ASSUME TypeOK, TypeOK', BooksClosed, [Next]_vars PROVE BooksClosed'
    OBVIOUS
  <1> USE DEF TypeOK
  <1>1. UsagesPaid'
    BY UsagesPaidStep DEF BooksClosed
  <1>2. CASE UNCHANGED money
    <2>1. HistoriesAgree' /\ MoneyBalances'
      BY <1>2 DEF BooksClosed, money, HistoriesAgree, MoneyBalances
    <2> QED
      BY <1>1, <2>1 DEF BooksClosed
  <1>3. CASE \E u \in Users, t \in Tokens : \E n \in 1..balance[t] : withdraw(u, t, n)
    <2> PICK u \in Users, t \in Tokens : \E n \in 1..balance[t] : withdraw(u, t, n)
      BY <1>3
    <2> PICK n \in 1..balance[t] : withdraw(u, t, n)
      OBVIOUS
    <2>1. MoneyBalances'
      BY MoneyAfterWithdrawal DEF BooksClosed
    <2>2. HistoriesAgree'
      BY DEF BooksClosed, withdraw, HistoriesAgree
    <2> QED
      BY <1>1, <2>1, <2>2 DEF BooksClosed
  <1>4. ASSUME NEW u \in Users, NEW t \in Tokens, NEW g \in Groups, NEW n \in 1..MaxUsages,
               pay(u, g, n, t)
        PROVE  BooksClosed'
    <2>1. n \in Nat
      OBVIOUS
    <2>2. PICK p : Booked(u, g, t, p)
      BY <1>4, <2>1, PaymentBooked
    <2>3. HistoriesAgree'
      BY <2>2, HistoriesAfterPayment DEF BooksClosed
    <2>4. MoneyBalances'
      BY <2>2, MoneyAfterPayment DEF BooksClosed
    <2> QED
      BY <1>1, <2>3, <2>4 DEF BooksClosed
  <1>5. CASE UNCHANGED vars
    BY <1>2, <1>5 DEF vars
  <1> QED
    BY <1>2, <1>3, <1>4, <1>5, MoneyCases DEF create_autoshare, topup_subscription

LEMMA BooksInit == Init => BooksClosed
  <1> SUFFICES ASSUME Init PROVE BooksClosed
    OBVIOUS
  <1>1. UsagesPaid
    BY DEF Init, UsagesPaid
  <1>2. HistoriesAgree
    <2> SUFFICES ASSUME NEW u \in Users, NEW g \in Groups
                 PROVE  Same(user_history[u], group_history[g], u, g)
      BY DEF HistoriesAgree
    <2>1. user_history[u] = <<>> /\ group_history[g] = <<>>
      BY DEF Init
    <2> DEFINE f == [x \in {} |-> x]
    <2>2. f \in Bijection({}, {})
      BY DEF Bijection, Injection, Surjection, IsInjective
    <2> HIDE DEF f
    <2>3. /\ {n \in DOMAIN <<>> : <<>>[n].group_id = g} = {}
          /\ {n \in DOMAIN <<>> : <<>>[n].user = u} = {}
      OBVIOUS
    <2> QED
      BY <2>1, <2>2, <2>3 DEF Same
  <1>3. MoneyBalances
    <2>1. PICK h : Sums(h, balance, Tokens) /\ BalanceIn(balance) = h[Tokens]
      BY BalanceSummed
    <2>2. PICK k : /\ Sums(k, AmountsByGroup(group_history), Groups)
                   /\ AmountInAll(group_history) = k[Groups]
      BY AmountInAllSummed
    <2>3. /\ \A t \in Tokens : balance[t] = 0
          /\ \A g \in Groups : AmountsByGroup(group_history)[g] = 0
          /\ withdrawn = 0
      BY EmptySums DEF Init, AmountsByGroup
    <2>4. h[Tokens] = 0 /\ k[Groups] = 0
      BY <2>1, <2>2, <2>3, SumOfNothing, AutoShareGroupsAssumption
    <2> QED
      BY <2>1, <2>2, <2>3, <2>4 DEF MoneyBalances
  <1> QED
    BY <1>1, <1>2, <1>3 DEF BooksClosed

\* The books close, whatever the users, groups, tokens and fees: the usages a
\* group paid for are those of its recorded payments, the two histories agree,
\* and every amount recorded is in the contract or was withdrawn.
THEOREM PaymentsCorrect == Spec => []PaymentsAccounted
  <1>1. Spec => []BooksClosed
    BY BooksInit, BooksStep, TypeCorrect, PTL DEF Spec
  <1>2. TypeOK /\ UsagesAccounted /\ BooksClosed => PaymentsAccounted
    BY PaymentParts DEF TypeOK
  <1> QED
    BY <1>1, <1>2, TypeCorrect, UsagesCorrect, PTL

=============================================================================
