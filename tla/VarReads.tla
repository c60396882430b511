------------------------------ MODULE VarReads -------------------------------
(***************************************************************************)
(* What a getter answers: VarHolder, and the getters by name and by index  *)
(* that applications call directly, with the samples the clients hold and  *)
(* the bytes they are read from.  An answer is <<value>>, or <<>> for      *)
(* nullopt.                                                                *)
(*                                                                         *)
(* The getters of LiveClient read the headers from the shared memory and   *)
(* the value from data_, which may be a row of the connection before; those*)
(* of DiskClient read the headers and varBuf_ of one file.                 *)
(***************************************************************************)
EXTENDS VarHolder, VarData

CONSTANTS
    Shape,    \* type and count of each variable
    Rows      \* the samples: the elements of each variable, in halves

(* LiveConnection::varNameToIndex answers -1, which is the index 2^32 - 1, *)
(* for a variable that is not there.                                       *)
NotFound == 2147483647

ASSUME RowAssumption ==
    /\ Shape \in [Names -> [type : DOMAIN VarDataTypeBytes, count : Nat \ {0}]]
    /\ \A row \in Rows, name \in Names : Len(row[name]) = Shape[name].count
    /\ \A l \in Layouts : Len(l) <= NotFound  \* getNumVars() is an int

VARIABLE held   \* in each client's buffer: a row, and the names of the
                \* variables it was laid out by; None: never filled

readVars == <<vars, held>>

ReadInit == Init /\ held = [id \in ClientIds |-> None]

RowsOf(names) == {[names |-> names, row |-> row] : row \in Rows}

(* waitForData that returns true; next() or seek() of a DiskClient.        *)
NewRow(id) ==
    /\ pc = "idle" /\ id \in available
    /\ \E buffer \in RowsOf(varHeaders[id]) : held' = [held EXCEPT ![id] = buffer]
    /\ UNCHANGED vars

(* A new connection finds the buffer freed, and allocates one, when a poll *)
(* saw the end of the last one.                                            *)
ConnectRow ==
    Connect /\ \E buffer \in {None, held[LIVE]} : held' = [held EXCEPT ![LIVE] = buffer]

(* openFile reads up to the first valid sample.                            *)
OpenRow(id) ==
    Open(id) /\ \E buffer \in RowsOf(varHeaders'[id]) : held' = [held EXCEPT ![id] = buffer]

CloseRow(id) == Close(id) /\ held' = [held EXCEPT ![id] = None]

OtherStep ==
    /\ \/ Disconnect \/ Get \/ GetValue
       \/ \E id \in ClientIds : SetActive(id) \/ RemoveClient(id)
       \/ \E id \in ClientIds, active \in BOOLEAN : Add(id, active)
       \/ \E name \in Names : setVarName(name)
    /\ UNCHANGED held

ReadNext ==
    \/ ConnectRow \/ OtherStep
    \/ \E id \in ClientIds : NewRow(id) \/ OpenRow(id) \/ CloseRow(id)

ReadSpec == ReadInit /\ [][ReadNext]_readVars
-----------------------------------------------------------------------------
(* The getters.                                                            *)

Garbage == -99

headersOf == [id \in ClientIds |-> Headers(varHeaders[id], Shape)]

(* idx < getNumVars(), which is nullopt, and below nothing, when the       *)
(* client is gone.                                                         *)
isVarIndexOk(id, idx) == id \in available /\ idx < Len(varHeaders[id])

getVarHeader(id, idx) ==
    IF isVarIndexOk(id, idx) THEN <<headersOf[id][idx + 1]>> ELSE <<>>

getVarCount(id, idx) == getVarHeader(id, idx)[1].count

isVarEntryOk(id, idx, entry) == isVarIndexOk(id, idx) /\ entry < getVarCount(id, idx)

Answer(id, kind, idx, entry) ==
    LET header == getVarHeader(id, idx)[1]
        stored == IF held[id] = None THEN Garbage
                  ELSE Stored(Headers(held[id].names, Shape), held[id].row,
                              Address(header, entry), header.type, Garbage)
    IN  <<Convert(kind, header.type, stored)>>

(* getVarBool(idx, entry) .. getVarDouble(idx, entry) of LiveClient.       *)
LiveGetVar(kind, idx, entry) ==
    IF isVarEntryOk(LIVE, idx, entry) THEN Answer(LIVE, kind, idx, entry) ELSE <<>>

(* And of DiskClient: false or 0 where LiveClient has nullopt.             *)
DiskGetVar(id, kind, idx, entry) ==
    IF isVarEntryOk(id, idx, entry) THEN Answer(id, kind, idx, entry) ELSE <<0>>

getVar(id, kind, idx, entry) ==
    IF id = LIVE THEN LiveGetVar(kind, idx, entry) ELSE DiskGetVar(id, kind, idx, entry)

getVarIdx(id, name) ==
    CASE Has(id, name) -> <<VarIdx(id, name)>>
      [] ~Has(id, name) /\ id = LIVE /\ id \in available -> <<NotFound>>
      [] OTHER -> <<>>

(* getVarBool(name, entry) .. getVarDouble(name, entry).                   *)
getVarNamed(id, kind, name, entry) ==
    LET idx == getVarIdx(id, name)
    IN  IF idx = <<>> THEN <<>> ELSE getVar(id, kind, idx[1], entry)
-----------------------------------------------------------------------------
(* The buffer holds a row of the variables the client has now.             *)
Current(id) == held[id] # None /\ held[id].names = varHeaders[id]

(* A getter finds its element by index, offset, size and entry, and        *)
(* converts it by the type of the header.  Asked directly by name, a       *)
(* client answers with that very element of the row it holds, whatever     *)
(* order its variables have, unless that row is of the variables it had    *)
(* before; with nullopt when there is no such variable; and when there is  *)
(* no such entry, nullopt live and 0 from a recording.  Asked by a holder  *)
(* for the index it keeps, the active client answers the same, unless it   *)
(* was lost since isAvailable or has other variables since the look-up.    *)
ValueOfVariable ==
    \A kind \in Kinds, entry \in 0 .. 2 :
      LET Right(id, name, answer) ==
            CASE ~Has(id, name) -> answer = <<>>
              [] Has(id, name) /\ entry < Shape[name].count ->
                   Current(id) => answer = <<Convert(kind, Shape[name].type,
                                                     held[id].row[name][entry + 1])>>
              [] OTHER -> answer = IF id = LIVE THEN <<>> ELSE <<0>>
      IN  /\ \A id \in ClientIds, name \in Names :
               Right(id, name, getVarNamed(id, kind, name, entry))
          /\ pc = "value" /\ ~lost /\ ~renewed
               => Right(getActive, name_, getVar(getActive, kind, idx_, entry))
=============================================================================
