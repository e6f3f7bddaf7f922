-------------------------- MODULE RequestTelemetry --------------------------
(***************************************************************************)
(* MSIDLastRequestTelemetry: the errors of earlier requests, waiting to be *)
(* reported in a header of the next token request.                         *)
(*                                                                         *)
(* Every operation runs in one barrier block on the object's serial queue, *)
(* so an operation is one action; HttpRequest takes them.  A string holds  *)
(* the newest errors that fit in it, the serialized item remembers the     *)
(* older ones it cut off, and a reset keeps only those.  Each change is    *)
(* written to a file, which may fail (the file is protected until the      *)
(* device is first unlocked), and the file is read when the app starts.    *)
(*                                                                         *)
(* The text of an error is abstracted to its size in bytes.  Operators     *)
(* whose comment begins with "Deviation" are not part of the model: they   *)
(* read like a likely mistake in the code, and show that the properties    *)
(* tell the two apart.                                                     *)
(***************************************************************************)
EXTENDS Integers, Sequences

CONSTANTS
    NIL,          \* nil, and a serialized item that cut nothing off
    Sizes,        \* sizes of an error: its api id, correlation id and text
    START,        \* size of the fields before the errors
    Limit,        \* telemetryStringSizeLimit
    MaxErrors,    \* maxErrorCountToArchive
    WriteMayFail, \* whether writing the file may fail
    MaxRecorded,  \* bound on the errors recorded by other flows
    MaxSilent     \* bound on the count of silent successes

ASSUME TelemetryAssumption ==
    /\ Sizes \subseteq Nat \ {0}
    /\ {START, Limit, MaxRecorded, MaxSilent} \subseteq Nat
    /\ MaxErrors \in Nat \ {0}
    /\ WriteMayFail \in BOOLEAN
    /\ NIL \notin Seq([id : Nat, size : Sizes])

VARIABLES
    errors,     \* _errorsInfo, oldest first; the id is the order of recording
    silent,     \* _silentSuccessfulCount
    cut,        \* getUnserializedTelemetry of telemetrySerializedItem
    marks,      \* the number of "1" in platformFields
    disk,       \* what the file holds of `errors' and `silent'
    recorded    \* how many errors were recorded (history)

telemetry == <<errors, silent, cut, marks, disk, recorded>>

Entry == [id : Nat, size : Sizes]

InitTelemetry ==
    /\ errors = <<>> /\ silent = 0 /\ cut = NIL /\ marks = 0
    /\ disk = [errors |-> <<>>, silent |-> 0]
    /\ recorded = 0

Ids(s)    == {s[i].id : i \in DOMAIN s}
Oldest(k) == SubSeq(errors, 1, k)
Newest(k) == SubSeq(errors, Len(errors) - k + 1, Len(errors))

\* Two commas, one in each list, go before every error but the first.
TextSize(s) ==
    LET size[k \in 0..Len(s)] ==
            IF k = 0 THEN 0
            ELSE size[k - 1] + s[k].size + (IF k = 1 THEN 0 ELSE 2)
    IN size[Len(s)]

-----------------------------------------------------------------------------
\* Deviation: the oldest errors are reported first.
CarriedOldest(k) == Ids(SubSeq(errors, 1, k))

Carried(k) == Ids(Newest(k))

Fits(k) == k = 0 \/ START + TextSize(Newest(k)) < Limit

\* serializeErrorsInfoWithCurrentStringSize: goes from the newest error to the
\* first that does not fit.
Room == CHOOSE k \in 0..Len(errors) :
            Fits(k) /\ (k = Len(errors) \/ ~ Fits(k + 1))

\* Deviation: the error that did not fit is not kept.
RemainderShort(k) ==
    IF k >= Len(errors) - 1 THEN NIL ELSE Oldest(Len(errors) - k - 1)

\* addRemainingErrorsToUnserializedTelemetry.
Remainder(k) == IF k = Len(errors) THEN NIL ELSE Oldest(Len(errors) - k)

\* The string: the ids it carries, the "1"s after them, and its size with the
\* bars around the error messages and the commas between the "1"s.
String == [carried |-> Carried(Room), marks |-> marks,
           size |-> START + TextSize(Newest(Room)) + 2
                    + (IF marks = 0 THEN 0 ELSE 2 * marks - 1)]

\* telemetryString.
Serialize ==
    /\ cut' = Remainder(Room)
    /\ UNCHANGED <<errors, silent, marks, disk, recorded>>

\* saveTelemetryToDisk: the oldest errors above the limit are dropped, in
\* memory too; a failed write is ignored.
SaveToDisk(newErrors, newSilent) ==
    LET over == Len(newErrors) - MaxErrors
        kept == IF over > 0 THEN SubSeq(newErrors, over + 1, Len(newErrors))
                ELSE newErrors
    IN /\ errors' = kept
       /\ silent' = newSilent
       /\ \/ disk' = [errors |-> kept, silent |-> newSilent]
          \/ WriteMayFail /\ disk' = disk

\* addErrorInfo.
AddError(size) ==
    /\ SaveToDisk(Append(errors, [id |-> recorded + 1, size |-> size]), silent)
    /\ recorded' = recorded + 1
    /\ UNCHANGED <<cut, marks>>

\* Deviation: everything recorded is taken for reported.
AllReported == <<>>

\* What a reset leaves of the errors.
Unreported == IF cut = NIL THEN <<>> ELSE cut

\* resetTelemetry.
Reset ==
    /\ SaveToDisk(Unreported, 0)
    /\ marks' = IF cut = NIL THEN marks ELSE marks + 1
    /\ UNCHANGED <<cut, recorded>>

\* updateWithApiId, from a completion: a missing error means success.
Update(outcome, size) == IF outcome = "ok" THEN Reset ELSE AddError(size)

\* increaseSilentSuccessfulCount.
IncreaseSilent ==
    /\ silent < MaxSilent
    /\ SaveToDisk(errors, silent + 1)
    /\ UNCHANGED <<cut, marks, recorded>>

\* initFromDisk: the serialized item and the platform fields are new.
LoadFromDisk ==
    /\ errors' = disk.errors /\ silent' = disk.silent
    /\ cut' = NIL /\ marks' = 0
    /\ UNCHANGED <<disk, recorded>>

-----------------------------------------------------------------------------
(* Never more errors than the archive may hold, in memory and in the file,  *)
(* and the item never keeps more than there are.                            *)
Waiting == {s \in Seq(Entry) : Len(s) <= MaxErrors}

TelemetryTypeOK ==
    /\ errors \in Waiting
    /\ silent \in 0..MaxSilent
    /\ cut = NIL \/ cut \in Waiting
    /\ marks \in Nat /\ recorded \in Nat
    /\ disk.errors \in Waiting /\ disk.silent \in 0..MaxSilent
=============================================================================
