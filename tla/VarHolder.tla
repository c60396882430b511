----------------------------- MODULE VarHolder ------------------------------
(***************************************************************************)
(* How a value is read by name: a VarHolder asks ClientManager for the     *)
(* active client, caches the index of its variable in that client, and     *)
(* reads the value at the index.  The clients are the live one and         *)
(* DiskClients that the application registers under an id each.            *)
(*                                                                         *)
(* A client is seen by what it is asked: is it available, and the list of  *)
(* its variables (varHeaders).  One thread uses the holder, the manager    *)
(* and the clients; the simulator connects and goes away between its       *)
(* steps, so that a read is two of them: isAvailable, then the value.      *)
(* A client that comes up again under its id may have other variables.     *)
(*                                                                         *)
(* Assumptions: the connection is not lost inside isAvailable; the text of *)
(* an id lives as long as a view of it does; no two open clients have one  *)
(* id; the element that is asked for exists.                               *)
(***************************************************************************)
EXTENDS Integers, Sequences, Functions

CONSTANTS
    Names,    \* names of variables
    DiskIds,  \* ids of DiskClients, other than LIVE
    LIVE,     \* Client::LiveClientId
    Layouts,  \* lists of variables that a client may have
    None      \* no id

ClientIds == DiskIds \cup {LIVE}

ASSUME HolderAssumption ==
    /\ LIVE \notin DiskIds /\ None \notin ClientIds
    /\ Layouts \subseteq Seq(Names) /\ Layouts # {}
    /\ \A l \in Layouts : IsInjective(l)
    /\ Names \cap {"none", "default", "throw"} = {}

VARIABLES
    available,      \* ids of the clients that are connected or have a file
    varHeaders,     \* the variables of the client with an id
    clients_,       \* ids in ClientManager::clients_
    activeClientId_,
    name_, available_, idx_, clientId_, \* the VarHolder
    pc,             \* in a getter: "idle", "value" once isAvailable was true
    out,            \* what the last getter did: "none", "default", "throw",
                    \* or the name of the variable whose value it returned
    had,            \* history: the active client had the variable at its start
    lost,           \* history: and was lost since
    renewed         \* history: since idx_ was looked up, the client with
                    \* clientId_ came up with other variables

clientVars  == <<available, varHeaders>>
managerVars == <<clients_, activeClientId_>>
cacheVars   == <<name_, available_, idx_, clientId_>>
holderVars  == <<cacheVars, renewed>>
callVars    == <<pc, out, had, lost>>
vars == <<clientVars, managerVars, holderVars, callVars>>

Init ==
    /\ available = {} /\ varHeaders \in [ClientIds -> Layouts]
    /\ clients_ = {} /\ activeClientId_ = LIVE
    /\ name_ \in Names /\ available_ = FALSE /\ idx_ = 0 /\ clientId_ = None
    /\ pc = "idle" /\ out = "none" /\ had = FALSE /\ lost = FALSE /\ renewed = FALSE

(* A client comes up, with any variables.                                  *)
ComesUp(id) ==
    /\ available' = available \cup {id}
    /\ \E l \in Layouts :
         /\ varHeaders' = [varHeaders EXCEPT ![id] = l]
         /\ renewed' = (renewed \/ (id = clientId_ /\ l # varHeaders[id]))

-----------------------------------------------------------------------------
(* The simulator (external), at any time.                                  *)

Connect ==
    /\ LIVE \notin available /\ ComesUp(LIVE)
    /\ UNCHANGED <<managerVars, cacheVars, callVars>>

Disconnect ==
    /\ LIVE \in available /\ available' = available \ {LIVE}
    /\ lost' = (lost \/ (pc # "idle" /\ activeClientId_ = LIVE))
    /\ UNCHANGED <<varHeaders, managerVars, holderVars, pc, out, had>>

-----------------------------------------------------------------------------
(* ClientManager.  The application registers a DiskClient once it has one. *)

setActive(id) ==
    activeClientId_' = IF id \in clients_' THEN id ELSE activeClientId_

(* SetActive(LIVE) does nothing: the live client is never in clients_.     *)
SetActive(id) ==
    /\ pc = "idle"
    /\ UNCHANGED clients_ /\ setActive(id)
    /\ UNCHANGED <<clientVars, holderVars, callVars>>

(* Refused when the id is taken.                                           *)
Add(id, active) ==
    /\ pc = "idle" /\ id \in available \cap DiskIds /\ id \notin clients_
    /\ clients_' = clients_ \cup {id}
    /\ IF active THEN setActive(id) ELSE UNCHANGED activeClientId_
    /\ UNCHANGED <<clientVars, holderVars, callVars>>

(* remove makes the live client the active one by setActive, which knows   *)
(* only registered clients.                                                *)
remove(id) ==
    /\ clients_' = clients_ \ {id}
    /\ activeClientId_' =
         IF id \in clients_ /\ id = activeClientId_ /\ LIVE \in clients_ THEN LIVE
         ELSE activeClientId_

RemoveClient(id) ==
    /\ pc = "idle" /\ id # LIVE /\ id \in clients_ /\ remove(id)
    /\ UNCHANGED <<clientVars, holderVars, callVars>>

(* Mutant: a closed client stays registered.                               *)
CloseRegistered(id) ==
    /\ pc = "idle" /\ id \in available \cap DiskIds
    /\ available' = available \ {id} /\ UNCHANGED managerVars
    /\ UNCHANGED <<varHeaders, holderVars, callVars>>

(* A DiskClient is made, and closed.                                       *)
Open(id) ==
    /\ pc = "idle" /\ id \in DiskIds \ available /\ ComesUp(id)
    /\ UNCHANGED <<managerVars, cacheVars, callVars>>

Close(id) ==
    /\ pc = "idle" /\ id \in available \cap DiskIds
    /\ available' = available \ {id} /\ remove(id)
    /\ UNCHANGED <<varHeaders, holderVars, callVars>>

(* getActive: an id, or None when there is no such client.                 *)
getActive ==
    IF activeClientId_ \in clients_ \cup {LIVE} THEN activeClientId_ ELSE None

-----------------------------------------------------------------------------
(* The client has the variable with the name; at the index.                *)
Has(id, name) == id \in available /\ name \in Range(varHeaders[id])
VarIdx(id, name) ==
    (CHOOSE i \in DOMAIN varHeaders[id] : varHeaders[id][i] = name) - 1

(* The index is kept while the id of the client is the same, whatever the  *)
(* client's variables are by now.                                          *)
Cached(id) == available_ /\ clientId_ = id

LookUp(id, name) ==
    /\ clientId_' = id /\ available_' = Has(id, name) /\ renewed' = FALSE
    /\ idx_' = IF Has(id, name) THEN VarIdx(id, name) ELSE idx_

(* Mutant: a holder that has an index does not ask whether there is a      *)
(* client.                                                                 *)
AvailableOnce(id) ==
    IF id \in available /\ ~Cached(id) THEN LookUp(id, name_) /\ pc' = IF available_' THEN "value" ELSE "idle"
    ELSE /\ pc' = IF available_ THEN "value" ELSE "idle"
         /\ UNCHANGED <<available_, idx_, clientId_, renewed>>

(* isAvailable; when it is true, the value comes next.                     *)
isAvailable(id) ==
    IF id \in available /\ ~Cached(id) THEN LookUp(id, name_) /\ pc' = IF available_' THEN "value" ELSE "idle"
    ELSE /\ pc' = IF id \in available /\ available_ THEN "value" ELSE "idle"
         /\ UNCHANGED <<available_, idx_, clientId_, renewed>>

(* getBool .. getDouble, getType, getCount.                                *)
Get ==
    /\ pc = "idle" /\ isAvailable(getActive)
    /\ out' = IF pc' = "value" THEN "none" ELSE "default"
    /\ had' = Has(getActive, name_) /\ lost' = FALSE
    /\ UNCHANGED <<clientVars, managerVars, name_>>

(* getVarBool .. getVarDouble of the client.  When it is gone or idx_ is   *)
(* not one of its variables a DiskClient answers with false or 0, as the   *)
(* getter's default, and LiveClient with nullopt: value() throws.          *)
GetValue ==
    /\ pc = "value" /\ pc' = "idle"
    /\ out' = CASE getActive \in available /\ idx_ < Len(varHeaders[getActive]) ->
                     varHeaders[getActive][idx_ + 1]
                [] ~(getActive \in available /\ idx_ < Len(varHeaders[getActive])) ->
                     IF getActive = LIVE THEN "throw" ELSE "default"
    /\ UNCHANGED <<clientVars, managerVars, holderVars, had, lost>>

(* Mutant: a new name without reset.                                       *)
RenamedOnly(name) ==
    /\ pc = "idle" /\ name_' = name /\ out' = "none" /\ had' = FALSE
    /\ UNCHANGED <<available_, idx_, clientId_, renewed, clientVars, managerVars, pc, lost>>

(* setVarName: reset, and isAvailable.                                     *)
setVarName(name) ==
    /\ pc = "idle" /\ name_' = name /\ out' = "none" /\ had' = FALSE
    /\ IF getActive \in available THEN LookUp(getActive, name)
       ELSE available_' = FALSE /\ UNCHANGED <<idx_, clientId_, renewed>>
    /\ UNCHANGED <<clientVars, managerVars, pc, lost>>

-----------------------------------------------------------------------------
Next ==
    \/ Connect \/ Disconnect
    \/ \E id \in ClientIds : SetActive(id) \/ RemoveClient(id) \/ Open(id) \/ Close(id)
    \/ \E id \in ClientIds, active \in BOOLEAN : Add(id, active)
    \/ Get \/ GetValue
    \/ \E name \in Names : setVarName(name)

Spec == Init /\ [][Next]_vars
-----------------------------------------------------------------------------
(* Types.  Registered clients are DiskClients that are open; a getter is   *)
(* in its second half only with an index.                                  *)
TypeOK ==
    /\ available \subseteq ClientIds /\ varHeaders \in [ClientIds -> Layouts]
    /\ clients_ \subseteq available \cap DiskIds /\ activeClientId_ \in ClientIds
    /\ name_ \in Names /\ available_ \in BOOLEAN /\ idx_ \in Nat
    /\ clientId_ \in ClientIds \cup {None}
    /\ pc \in {"idle", "value"} /\ (pc = "value" => available_)
    /\ out \in Names \cup {"none", "default", "throw"}
    /\ had \in BOOLEAN /\ lost \in BOOLEAN /\ renewed \in BOOLEAN

(* A value that a getter returns is that of the variable with the holder's *)
(* name, whatever clients were registered, made active, closed, connected  *)
(* and lost before and inside it: unless the client came up again with     *)
(* other variables, under its id, since the index was looked up.  A holder *)
(* that looked elsewhere since, or was given a name, is right again.       *)
ReadsItsVariable == out \in Names /\ ~renewed => out = name_

(* A getter answers with the default while the active client has the       *)
(* variable only when that client came up again with other variables since *)
(* the index was looked up: that it was missing once is not remembered.    *)
FindsItsVariable == out = "default" /\ had => renewed

(* A getter throws only when the client was lost inside it, or came up     *)
(* again with other variables since the index was looked up.               *)
ThrowsOnlyIfLost == out = "throw" => lost \/ renewed
=============================================================================
