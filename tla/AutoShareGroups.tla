--------------------------- MODULE AutoShareGroups ---------------------------
(***************************************************************************)
(* The AutoShare contract's groups (channels), their prepaid usages and    *)
(* members, and its administration (hello-world/src/autoshare_logic.rs).   *)
(* A call is atomic and a rejected one changes nothing, so that an action  *)
(* is a call that succeeds.  u32 additions abort on overflow               *)
(* (overflow-checks = true), which is again a rejected call.               *)
(*                                                                         *)
(* AllGroups lists the groups there are, the domain of `groups`.  The four *)
(* default categories are registered by initialize_admin and none is ever  *)
(* removed.  `nominator`, `handedOver`, `withdrawn`, `used` and            *)
(* `forfeited` are history.                                                *)
(***************************************************************************)
EXTENDS Integers, Sequences, FiniteSets, FiniteSetsExt, SequencesExt

CONSTANTS
    Users, Groups, Tokens,
    Nobody,         \* no administrator, nobody nominated
    Whole,          \* 100, the percentages of a group's members together
    Shares,         \* the percentages in use
    MaxMembers,     \* MAX_MEMBERS
    DefaultFee,     \* 10
    Fees,           \* fees that set_usage_fee sets
    MaxUsages,      \* bound: usages bought by one call
    MaxPayments     \* bound: payments

ASSUME AutoShareGroupsAssumption ==
    /\ Nobody \notin Users
    /\ IsFiniteSet(Groups) /\ IsFiniteSet(Tokens)
    /\ Whole \in Nat /\ Shares \subseteq Nat
    /\ {MaxMembers, MaxUsages, MaxPayments} \subseteq Nat
    /\ Fees \cup {DefaultFee} \subseteq Nat

GroupMember == [address : Users, percentage : Shares]

\* AutoShareDetails, less its name and priority.
Group == [creator : Users, usage_count : Nat, total_usages_paid : Nat,
          members : Seq(GroupMember), is_active : BOOLEAN]

PaymentHistory == [user : Users, group_id : Groups, usages_purchased : Nat, amount_paid : Nat]

VARIABLES
    admin, pendingOwner, is_paused, usage_fee, tokens,
    groups,          \* DataKey::AutoShare, by id
    user_history,    \* DataKey::UserPaymentHistory
    group_history,   \* DataKey::GroupPaymentHistory
    balance,         \* the contract's balance of each token
    nominator,       \* who nominated pendingOwner
    handedOver,      \* transfer_admin succeeded since that nomination
    withdrawn,       \* what withdraw paid out
    used, forfeited  \* usages of each group spent, and lost by cancellation

ownership == <<admin, pendingOwner, nominator, handedOver>>
settings == <<is_paused, usage_fee, tokens>>
money == <<user_history, group_history, balance, withdrawn>>
usages == <<used, forfeited>>
vars == <<ownership, settings, groups, money, usages>>

-----------------------------------------------------------------------------
Init ==
    /\ admin = Nobody /\ pendingOwner = Nobody
    /\ nominator = Nobody /\ handedOver = FALSE
    /\ is_paused = FALSE /\ usage_fee = DefaultFee /\ tokens = {}
    /\ groups = <<>>
    /\ user_history = [u \in Users |-> <<>>]
    /\ group_history = [g \in Groups |-> <<>>]
    /\ balance = [t \in Tokens |-> 0] /\ withdrawn = 0
    /\ used = [g \in Groups |-> 0] /\ forfeited = [g \in Groups |-> 0]

initialize_admin(caller) ==
    /\ admin = Nobody
    /\ admin' = caller
    /\ usage_fee' = DefaultFee /\ tokens' = {}
    /\ UNCHANGED <<pendingOwner, nominator, handedOver, is_paused, groups, money, usages>>

require_admin(caller) == caller = admin

\* A nomination that is pending is left pending.
transfer_admin(current_admin, new_admin) ==
    /\ require_admin(current_admin)
    /\ ~is_paused
    /\ new_admin # current_admin
    /\ admin' = new_admin
    /\ handedOver' = (pendingOwner # Nobody)
    /\ UNCHANGED <<pendingOwner, nominator, settings, groups, money, usages>>

initiate_ownership_transfer(current_owner, new_owner) ==
    /\ require_admin(current_owner)
    /\ new_owner # current_owner
    /\ pendingOwner' = new_owner
    /\ nominator' = current_owner /\ handedOver' = FALSE
    /\ UNCHANGED <<admin, settings, groups, money, usages>>

\* Mutant: the pending slot is not cleared.
acceptAndKeepPending(new_owner) ==
    /\ new_owner = pendingOwner
    /\ admin # Nobody
    /\ admin' = new_owner
    /\ UNCHANGED <<pendingOwner, nominator, handedOver, settings, groups, money, usages>>

accept_ownership(new_owner) ==
    /\ new_owner = pendingOwner
    /\ admin # Nobody
    /\ admin' = new_owner
    /\ pendingOwner' = Nobody
    /\ nominator' = Nobody /\ handedOver' = FALSE
    /\ UNCHANGED <<settings, groups, money, usages>>

pause(caller) ==
    /\ require_admin(caller)
    /\ ~is_paused /\ is_paused' = TRUE
    /\ UNCHANGED <<ownership, usage_fee, tokens, groups, money, usages>>

unpause(caller) ==
    /\ require_admin(caller)
    /\ is_paused /\ is_paused' = FALSE
    /\ UNCHANGED <<ownership, usage_fee, tokens, groups, money, usages>>

add_supported_token(token, caller) ==
    /\ require_admin(caller)
    /\ token \notin tokens
    /\ tokens' = tokens \cup {token}
    /\ UNCHANGED <<ownership, is_paused, usage_fee, groups, money, usages>>

remove_supported_token(token, caller) ==
    /\ require_admin(caller)
    /\ token \in tokens
    /\ tokens' = tokens \ {token}
    /\ UNCHANGED <<ownership, is_paused, usage_fee, groups, money, usages>>

set_usage_fee(fee, caller) ==
    /\ require_admin(caller)
    /\ fee # 0
    /\ usage_fee' = fee
    /\ UNCHANGED <<ownership, is_paused, tokens, groups, money, usages>>

-----------------------------------------------------------------------------
record_payment(user, g, count, amount) ==
    LET payment == [user |-> user, group_id |-> g, usages_purchased |-> count,
                    amount_paid |-> amount]
    IN /\ user_history' = [user_history EXCEPT ![user] = Append(@, payment)]
       /\ group_history' = [group_history EXCEPT ![g] = Append(@, payment)]

\* `user` pays the contract for usages of g. The token may refuse.
pay(user, g, count, token) ==
    /\ count > 0
    /\ token \in tokens
    /\ balance' = [balance EXCEPT ![token] = @ + count * usage_fee]
    /\ record_payment(user, g, count, count * usage_fee)
    /\ UNCHANGED withdrawn

create_autoshare(g, creator, usage_count, token) ==
    /\ ~is_paused
    /\ admin # Nobody
    /\ g \notin DOMAIN groups
    /\ pay(creator, g, usage_count, token)
    /\ groups' = [h \in DOMAIN groups \cup {g} |->
                    IF h = g THEN [creator |-> creator, usage_count |-> usage_count,
                                   total_usages_paid |-> usage_count,
                                   members |-> <<>>, is_active |-> TRUE]
                    ELSE groups[h]]
    /\ UNCHANGED <<ownership, settings, usages>>

topup_subscription(g, additional, token, payer) ==
    /\ ~is_paused
    /\ groups[g].is_active
    /\ pay(payer, g, additional, token)
    /\ groups' = [groups EXCEPT ![g].usage_count = @ + additional,
                                ![g].total_usages_paid = @ + additional]
    /\ UNCHANGED <<ownership, settings, usages>>

is_group_member(g, u) == \E m \in Range(groups[g].members) : m.address = u

\* Mutant: what is left of the usages is not cleared.
cancelAndKeepUsages(g, subscriber) ==
    /\ ~is_paused
    /\ subscriber = groups[g].creator \/ is_group_member(g, subscriber)
    /\ groups[g].is_active
    /\ groups' = [groups EXCEPT ![g].is_active = FALSE]
    /\ forfeited' = [forfeited EXCEPT ![g] = @ + groups[g].usage_count]
    /\ UNCHANGED <<ownership, settings, money, used>>

cancel_subscription(g, subscriber) ==
    /\ ~is_paused
    /\ subscriber = groups[g].creator \/ is_group_member(g, subscriber)
    /\ groups[g].is_active
    /\ groups' = [groups EXCEPT ![g].is_active = FALSE, ![g].usage_count = 0]
    /\ forfeited' = [forfeited EXCEPT ![g] = @ + groups[g].usage_count]
    /\ UNCHANGED <<ownership, settings, money, used>>

\* Works while the contract is paused.
reduce_usage(g, caller) ==
    /\ caller = groups[g].creator
    /\ groups[g].is_active
    /\ groups[g].usage_count > 0
    /\ groups' = [groups EXCEPT ![g].usage_count = @ - 1]
    /\ used' = [used EXCEPT ![g] = @ + 1]
    /\ UNCHANGED <<ownership, settings, money, forfeited>>

-----------------------------------------------------------------------------
totalPercentage(members) ==
    FoldSeq(LAMBDA m, total : m.percentage + total, 0, members)

\* Mutant: the percentages need only fit.
validate_members_fit(members) ==
    /\ Len(members) \in 1..MaxMembers
    /\ IsInjective([n \in DOMAIN members |-> members[n].address])
    /\ totalPercentage(members) <= Whole

validate_members(members) ==
    /\ Len(members) \in 1..MaxMembers
    /\ IsInjective([n \in DOMAIN members |-> members[n].address])
    /\ totalPercentage(members) = Whole

setMembers(g, members) ==
    /\ validate_members(members)
    /\ groups' = [groups EXCEPT ![g].members = members]
    /\ UNCHANGED <<ownership, settings, money, usages>>

\* Works on an inactive group.
add_group_member(g, caller, address, percentage) ==
    /\ ~is_paused
    /\ caller = groups[g].creator
    /\ ~is_group_member(g, address)
    /\ setMembers(g, Append(groups[g].members,
                            [address |-> address, percentage |-> percentage]))

update_members(g, caller, new_members) ==
    /\ ~is_paused
    /\ caller = groups[g].creator
    /\ groups[g].is_active
    /\ setMembers(g, new_members)

deactivate_group(g, caller) ==
    /\ ~is_paused
    /\ caller \in {groups[g].creator, admin}
    /\ groups[g].is_active
    /\ groups' = [groups EXCEPT ![g].is_active = FALSE]
    /\ UNCHANGED <<ownership, settings, money, usages>>

\* Only the creator, whoever deactivated the group or cancelled.
activate_group(g, caller) ==
    /\ ~is_paused
    /\ caller = groups[g].creator
    /\ ~groups[g].is_active
    /\ groups' = [groups EXCEPT ![g].is_active = TRUE]
    /\ UNCHANGED <<ownership, settings, money, usages>>

withdraw(caller, token, amount) ==
    /\ require_admin(caller)
    /\ 0 < amount /\ amount <= balance[token]
    /\ balance' = [balance EXCEPT ![token] = @ - amount]
    /\ withdrawn' = withdrawn + amount
    /\ UNCHANGED <<ownership, settings, groups, user_history, group_history, usages>>

-----------------------------------------------------------------------------
paymentsMade == MapThenSumSet(LAMBDA g : Len(group_history[g]), Groups)

Next ==
    \E u \in Users :
        \/ initialize_admin(u)
        \/ accept_ownership(u)
        \/ pause(u)
        \/ unpause(u)
        \/ \E v \in Users : transfer_admin(u, v) \/ initiate_ownership_transfer(u, v)
        \/ \E fee \in Fees : set_usage_fee(fee, u)
        \/ \E t \in Tokens :
             \/ add_supported_token(t, u)
             \/ remove_supported_token(t, u)
             \/ \E amount \in 1..balance[t] : withdraw(u, t, amount)
             \/ \E g \in Groups, n \in 1..MaxUsages :
                  /\ paymentsMade < MaxPayments
                  /\ \/ create_autoshare(g, u, n, t)
                     \/ g \in DOMAIN groups /\ topup_subscription(g, n, t, u)
        \/ \E g \in DOMAIN groups :
             \/ cancel_subscription(g, u)
             \/ reduce_usage(g, u)
             \/ deactivate_group(g, u)
             \/ activate_group(g, u)
             \/ \E v \in Users, p \in Shares : add_group_member(g, u, v, p)
             \/ \E members \in SeqOf(GroupMember, MaxMembers) : update_members(g, u, members)

Spec == Init /\ [][Next]_vars

-----------------------------------------------------------------------------
(***************************************************************************)
(* Properties.                                                             *)
(***************************************************************************)

OwnersOK ==
    /\ {admin, pendingOwner, nominator} \subseteq Users \cup {Nobody}
    /\ pendingOwner = Nobody <=> nominator = Nobody
    /\ pendingOwner # Nobody => admin # Nobody
    /\ handedOver \in BOOLEAN

SettingsOK ==
    /\ is_paused \in BOOLEAN
    /\ usage_fee \in Fees \cup {DefaultFee}
    /\ tokens \subseteq Tokens

\* Members share the whole: a group has none yet, or distinct ones with all of
\* the percentages, also after calls that add one member at a time.
MembersOK(members) ==
    /\ members # <<>> => totalPercentage(members) = Whole
    /\ \A m, n \in DOMAIN members : members[m].address = members[n].address => m = n

GroupsOK ==
    /\ DOMAIN groups \subseteq Groups
    /\ groups \in [DOMAIN groups -> Group]
    /\ \A g \in DOMAIN groups : MembersOK(groups[g].members)

MoneyOK ==
    /\ user_history \in [Users -> Seq(PaymentHistory)]
    /\ group_history \in [Groups -> Seq(PaymentHistory)]
    /\ balance \in [Tokens -> Nat] /\ withdrawn \in Nat

UsagesOK == used \in [Groups -> Nat] /\ forfeited \in [Groups -> Nat]

\* Types; nobody is nominated by nobody or before there is an administrator;
\* and the members of every group share the whole.
TypeOK == OwnersOK /\ SettingsOK /\ GroupsOK /\ MoneyOK /\ UsagesOK

purchased(g) == FoldSeq(LAMBDA p, n : p.usages_purchased + n, 0, group_history[g])

amountPaid(g) == FoldSeq(LAMBDA p, n : p.amount_paid + n, 0, group_history[g])

\* The payments to all groups, and what the contract has of all tokens.
received == MapThenSumSet(amountPaid, Groups)

held == MapThenSumSet(LAMBDA t : balance[t], Tokens)

\* Every usage a group paid for is left, spent or lost by a cancellation,
\* however often it was cancelled, activated and topped up again.
UsagesAccounted ==
    \A g \in Groups :
        used[g] + forfeited[g] = IF g \in DOMAIN groups
                                 THEN groups[g].total_usages_paid - groups[g].usage_count
                                 ELSE 0

\* The payments of u for g are the same, in the same order, in both histories.
SamePayments(u, g) ==
    LET ofUser == {n \in DOMAIN user_history[u] : user_history[u][n].group_id = g}
        ofGroup == {n \in DOMAIN group_history[g] : group_history[g][n].user = u}
    IN \E f \in Bijection(ofUser, ofGroup) :
         \A m, n \in ofUser : /\ user_history[u][m] = group_history[g][f[m]]
                              /\ m < n => f[m] < f[n]

\* The books close: the usages paid for are those of the recorded payments;
\* a user's payments for a group are the group's payments by the user; and every
\* amount recorded is in the contract or was withdrawn, whatever the fee was at
\* each payment.
PaymentsAccounted ==
    /\ UsagesAccounted
    /\ \A g \in DOMAIN groups : groups[g].total_usages_paid = purchased(g)
    /\ \A u \in Users, g \in Groups : SamePayments(u, g)
    /\ held + withdrawn = received

\* "Until step 2 completes the current owner remains in control"
\* (autoshare_logic.rs): a pending nomination is that of the owner there is,
\* unless transfer_admin has handed the contract over in the meantime.
NominationsExplained ==
    pendingOwner # Nobody => nominator = admin \/ handedOver
=============================================================================
