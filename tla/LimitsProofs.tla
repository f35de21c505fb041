---------------------------- MODULE LimitsProofs ----------------------------
(***************************************************************************)
(* Theorems about the two limits of the configuration that the code        *)
(* compares in more than one place, for any values of them.                *)
(*                                                                         *)
(* MAX_UPLOAD_BYTES (Uploads): the gateway and the worker compare it, with *)
(* an object in the bucket and a row between them.                         *)
(*                                                                         *)
(* JOB_LEASE against JOB_TIMEOUT (LeaseTiming): how long a lease lasts     *)
(* without a renewal, and how long when one in two fails.  What bounds the *)
(* lease from below is the start of the last renewal that succeeded.  That *)
(* moment is in no variable: Fresh recovers it from the ticks, of which at *)
(* most one waits in the channel.                                          *)
(***************************************************************************)
EXTENDS Uploads, LeaseTiming, TLAPS

---------------------------------------------------------------------------
(* MAX_UPLOAD_BYTES, from an upload to its conversion *)

UploadsTypeOK ==
    /\ limit \in Limits /\ cap \in Caps
    /\ size \in [Documents -> Sizes]
    /\ unpacked \in [Documents -> Unpacked]
    /\ request \in [Documents -> {"put", "compare", "insert", "answered"}]
    /\ answer \in [Documents -> {"none", "accepted", "error", "too_large"}]
    /\ row \in [Documents -> {"absent", "live", "deleted"}]
    /\ job \in [Documents -> {"absent", "queued", "fetched", "parsed", "unreadable", "over_cap",
                             "zip_too_large", "no_original", "source_too_large"}]
    /\ open \in [Documents -> {"idle", "found", "served", "broken"}]

\* What an upload knows of its object and its size before each of its calls.
RequestKnows(d) ==
    /\ request[d] \in {"compare", "insert"} => OriginalKey(d) \in objects
    /\ request[d] = "insert" => ~TooLong(size[d])
    /\ request[d] # "answered" => row[d] = "absent"
    /\ answer[d] = "accepted" => row[d] # "absent"
    /\ answer[d] = "too_large" => request[d] = "answered" /\ row[d] = "absent"

\* What a row stands for, for whoever finds it.
RowStands(d) ==
    /\ row[d] = "absent" => job[d] = "absent" /\ open[d] = "idle"
    /\ row[d] # "absent" => OriginalKey(d) \in objects /\ ~TooLong(size[d])
    /\ open[d] # "broken"
    /\ job[d] # "no_original"
    /\ limit > 0 => job[d] # "source_too_large"
    /\ job[d] = "over_cap" => OverCap(d)
    /\ job[d] = "zip_too_large" => OverQuota(d)
    /\ job[d] = "parsed" => ~OverCap(d)

\* The inductive invariant.  It is about one document at a time: the clean up of a rejected
\* upload removes only what its own key begins with.
UploadsInv == UploadsTypeOK /\ \A d \in Documents : RequestKnows(d) /\ RowStands(d)

\* What a step for one document leaves alone is what is said of the others.
Others(d) ==
    \A e \in Documents \ {d} :
        /\ request'[e] = request[e] /\ answer'[e] = answer[e] /\ row'[e] = row[e]
        /\ job'[e] = job[e] /\ open'[e] = open[e]
        /\ OriginalKey(e) \in objects => OriginalKey(e) \in objects'

\* A step keeps the invariant when it keeps the types, what is said of its own document,
\* and leaves the others alone.
LEMMA OneDocument ==
    ASSUME UploadsInv, UploadsTypeOK', UNCHANGED given, NEW d \in Documents, Others(d),
           RequestKnows(d)', RowStands(d)'
    PROVE  UploadsInv'
<1> SUFFICES ASSUME NEW e \in Documents PROVE RequestKnows(e)' /\ RowStands(e)'
  BY DEF UploadsInv
<1>1. CASE e = d
  BY <1>1
<1>2. CASE e # d
  <2>1. RequestKnows(e) /\ RowStands(e)
    BY DEF UploadsInv
  <2>2. QED
    BY <1>2, <2>1 DEF Others, RequestKnows, RowStands, TooLong, OriginalKey, OverCap, OverQuota,
                           Fetched, given
<1>3. QED
  BY <1>1, <1>2

\* Before the first call.
LEMMA UploadsInvInit == ASSUME UploadsInit PROVE UploadsInv
  BY DEF UploadsInit, UploadsInv, UploadsTypeOK, RequestKnows, RowStands, TooLong

\* A document that is not too long is fetched whole, and its worker does not refuse it.
LEMMA FetchedWhole ==
    ASSUME UploadsAssumption, UploadsTypeOK, NEW d \in Documents, limit > 0, ~TooLong(size[d])
    PROVE  Fetched(d) = size[d] /\ ~(Fetched(d) > limit)
<1>1. limit \in Nat /\ size[d] \in Nat
  BY DEF UploadsAssumption, UploadsTypeOK
<1>2. QED
  BY <1>1 DEF Fetched, TooLong

\* Each call of an upload keeps the invariant.
LEMMA InvUpload ==
    ASSUME UploadsInv, NEW d \in Documents,
           Put(d) \/ Compare(d) \/ CreateWithDocument(d) \/ UploadFails(d)
    PROVE  UploadsInv'
<1> USE DEF Answer, Proceed, Rows
<1>0. UploadsTypeOK /\ RequestKnows(d) /\ RowStands(d)
  BY DEF UploadsInv
<1>1. CASE Put(d)
  <2>1. UploadsTypeOK' /\ Others(d) /\ UNCHANGED given
    BY <1>0, <1>1 DEF Put, UploadsTypeOK, Others, given
  <2>2. RequestKnows(d)' /\ RowStands(d)'
    BY <1>0, <1>1 DEF Put, UploadsTypeOK, RequestKnows, RowStands, TooLong, OriginalKey,
       OverCap, OverQuota, Fetched, given
  <2>3. QED
    BY <2>1, <2>2, OneDocument
<1>2. CASE Compare(d)
  <2>1. UploadsTypeOK' /\ Others(d) /\ UNCHANGED given
    BY <1>0, <1>2 DEF Compare, UploadsTypeOK, Others, OriginalKey, given
  <2>2. RequestKnows(d)' /\ RowStands(d)'
    BY <1>0, <1>2 DEF Compare, UploadsTypeOK, RequestKnows, RowStands, TooLong, OriginalKey,
       OverCap, OverQuota, Fetched, given
  <2>3. QED
    BY <2>1, <2>2, OneDocument
<1>3. CASE CreateWithDocument(d)
  <2>1. UploadsTypeOK' /\ Others(d) /\ UNCHANGED given
    BY <1>0, <1>3 DEF CreateWithDocument, UploadsTypeOK, Others, given
  <2>2. RequestKnows(d)' /\ RowStands(d)'
    BY <1>0, <1>3 DEF CreateWithDocument, UploadsTypeOK, RequestKnows, RowStands, TooLong, OriginalKey,
       OverCap, OverQuota, Fetched, given
  <2>3. QED
    BY <2>1, <2>2, OneDocument
<1>4. CASE UploadFails(d)
  <2>1. UploadsTypeOK' /\ Others(d) /\ UNCHANGED given
    BY <1>0, <1>4 DEF UploadFails, UploadsTypeOK, Others, given
  <2>2. RequestKnows(d)' /\ RowStands(d)'
    BY <1>0, <1>4 DEF UploadFails, UploadsTypeOK, RequestKnows, RowStands, TooLong, OriginalKey,
       OverCap, OverQuota, Fetched, given
  <2>3. QED
    BY <2>1, <2>2, OneDocument
<1>5. QED
  BY <1>1, <1>2, <1>3, <1>4

\* So do the users who delete and open documents.
LEMMA InvReaders ==
    ASSUME UploadsInv, NEW d \in Documents,
           SoftDelete(d) \/ FindOriginal(d) \/ ServeOriginal(d)
    PROVE  UploadsInv'
<1>0. UploadsTypeOK /\ RequestKnows(d) /\ RowStands(d)
  BY DEF UploadsInv
<1>1. UploadsTypeOK' /\ Others(d) /\ UNCHANGED given
  BY <1>0 DEF SoftDelete, FindOriginal, ServeOriginal, UploadsTypeOK, Others, given
<1>2. RequestKnows(d)' /\ RowStands(d)'
  BY <1>0 DEF SoftDelete, FindOriginal, ServeOriginal, UploadsTypeOK, RequestKnows, RowStands, TooLong,
              OriginalKey, OverCap, OverQuota, Fetched, given
<1>3. QED
  BY <1>1, <1>2, OneDocument

\* And the worker, who finds the object of a row and does not refuse its size.
LEMMA InvDownload ==
    ASSUME UploadsAssumption, UploadsInv, NEW d \in Documents, Download(d)
    PROVE  UploadsInv'
<1>0. UploadsTypeOK /\ RequestKnows(d) /\ RowStands(d)
  BY DEF UploadsInv
<1>1. UploadsTypeOK' /\ Others(d) /\ UNCHANGED given
  BY <1>0 DEF Download, UploadsTypeOK, Others, given
<1>2. row[d] # "absent" /\ OriginalKey(d) \in objects /\ ~TooLong(size[d])
  BY <1>0 DEF Download, RowStands, UploadsTypeOK
<1>3. limit > 0 => ~(Fetched(d) > limit)
  BY <1>0, <1>2, FetchedWhole
<1>4. RequestKnows(d)' /\ RowStands(d)'
  BY <1>0, <1>2, <1>3 DEF Download, UploadsTypeOK, RequestKnows, RowStands, TooLong, given
<1>5. QED
  BY <1>0, <1>1, <1>4, OneDocument

\* The parser compares what it got with the limit it was given.
LEMMA InvParse == ASSUME UploadsInv, NEW d \in Documents, Parse(d) PROVE UploadsInv'
<1>0. UploadsTypeOK /\ RequestKnows(d) /\ RowStands(d)
  BY DEF UploadsInv
<1>1. UploadsTypeOK' /\ Others(d) /\ UNCHANGED given
  BY <1>0 DEF Parse, UploadsTypeOK, Others, given
<1>2. RequestKnows(d)'
  BY <1>0 DEF Parse, RequestKnows, TooLong, given
<1>3. /\ job'[d] \in {"over_cap", "zip_too_large", "parsed", "unreadable"}
      /\ job'[d] = "over_cap" => OverCap(d)
      /\ job'[d] = "zip_too_large" => OverQuota(d)
      /\ job'[d] = "parsed" => ~OverCap(d)
  BY <1>0 DEF Parse, UploadsTypeOK
<1>4. RowStands(d)'
  BY <1>0, <1>3 DEF Parse, RowStands, TooLong, given, OverCap, OverQuota, Fetched
<1>5. QED
  BY <1>1, <1>2, <1>4, OneDocument

\* The inductive invariant: what every request, row and download relies on.
THEOREM UploadsInvariant == ASSUME UploadsAssumption PROVE UploadsSpec => []UploadsInv
<1>1. UploadsInv /\ [UploadsNext]_uploadVars => UploadsInv'
  <2> SUFFICES ASSUME UploadsInv, [UploadsNext]_uploadVars PROVE UploadsInv'
    OBVIOUS
  <2>1. CASE UNCHANGED uploadVars
    BY <2>1 DEF uploadVars, UploadsInv, UploadsTypeOK, RequestKnows, RowStands, TooLong,
              OverCap, OverQuota, Fetched, given
  <2>2. CASE UploadsNext
    BY <2>2, InvUpload, InvReaders, InvDownload, InvParse DEF UploadsNext
  <2>3. QED
    BY <2>1, <2>2
<1>2. QED
  BY UploadsInvInit, <1>1, PTL DEF UploadsSpec

\* Upload, SoftDelete, OpenOriginal: whatever call fails, and whatever else is rejected and
\* cleaned up meanwhile, no document is without its object.
THEOREM NeverMissingHolds == ASSUME UploadsAssumption PROVE UploadsSpec => []NeverMissing
<1>1. UploadsInv => NeverMissing
  BY DEF UploadsInv, UploadsTypeOK, RequestKnows, RowStands, NeverMissing
<1>2. QED
  BY UploadsInvariant, <1>1, PTL

\* Upload, process and Parse: under any positive limit the parser gets the whole file, and
\* PARSE_MAX_BYTES is the only limit on size that an accepted document may be over.
THEOREM ConvertedWholeHolds == ASSUME UploadsAssumption PROVE UploadsSpec => []ConvertedWhole
<1>1. UploadsInv => ConvertedWhole
  <2> SUFFICES ASSUME UploadsInv, limit > 0, NEW d \in Documents
               PROVE  /\ job[d] \notin {"no_original", "source_too_large"}
                      /\ job[d] \notin {"absent", "queued"} => Fetched(d) = size[d]
                      /\ job[d] = "over_cap" => cap > 0 /\ size[d] > cap /\ size[d] <= limit
                      /\ job[d] = "zip_too_large" => cap > 0 /\ unpacked[d] > 20 * cap
                      /\ job[d] = "parsed" /\ format[d] \in ReadAtOnce /\ cap > 0 => size[d] <= cap
    BY DEF ConvertedWhole
  <2>1. UploadsTypeOK /\ RowStands(d)
    BY DEF UploadsInv
  <2>2. job[d] # "absent" => ~TooLong(size[d])
    BY <2>1 DEF RowStands
  <2>3. job[d] # "absent" => Fetched(d) = size[d]
    BY <2>1, <2>2, FetchedWhole
  <2>4. size[d] \in Nat /\ cap \in Nat /\ limit \in Nat
    BY <2>1 DEF UploadsTypeOK, UploadsAssumption
  <2>5. job[d] # "absent" => size[d] <= limit
    BY <2>2, <2>4 DEF TooLong
  <2>6. QED
    BY <2>1, <2>3, <2>4, <2>5 DEF RowStands, OverCap, OverQuota
<1>2. QED
  BY UploadsInvariant, <1>1, PTL

---------------------------------------------------------------------------
(* Arithmetic of the ticker *)

\* From one unit to the next, either a tick is due or the last one is a unit older.
LEMMA NextTick ==
    ASSUME NEW n \in Nat, NEW d \in Nat \ {0}
    PROVE  /\ n % d \in 0..(d - 1)
           /\ (n + 1) % d = 0 \/ (n + 1) % d = (n % d) + 1
  OBVIOUS

\* Three thirds of a lease are not more than the lease.
LEMMA Thirds == ASSUME NEW n \in Nat PROVE n \div 3 \in Nat /\ 3 * (n \div 3) <= n
  OBVIOUS

---------------------------------------------------------------------------
(* A lease that nothing renews *)

Stages == {"claimed", "working", "converted", "faulty", "publishing", "settling", "over"}

TimingTypeOK ==
    /\ work \in Timings /\ Valid(work)
    /\ stage \in Stages
    /\ late \in Nat /\ age \in Nat /\ left \in Nat /\ asked \in Nat /\ failed \in Nat
    /\ renewer \in {"off", "waiting", "asking", "stopped"}

\* The goroutine starts with process, and a renewal is not older than it.
Starts ==
    /\ stage = "claimed" <=> renewer = "off"
    /\ stage = "claimed" => age = 0 /\ failed = 0 /\ ~due
    /\ asked <= age /\ asked <= MaxLatency

\* A lease lasts as long as it was granted for, renewed or not.
Granted == late + age + left >= work.lease

GrantInv == TimingTypeOK /\ Starts /\ Granted

\* What is configured is a pair of numbers.
LEMMA WorkFields == TimingTypeOK => work.timeout \in Nat /\ work.lease \in Nat
  BY TimingAssumption DEF TimingTypeOK

\* A renewed lease is that of the start of the statement, or over.
LEMMA LeftAfterFacts ==
    ASSUME TimingTypeOK, NEW ago \in Nat
    PROVE  LeftAfter(ago) \in Nat /\ ago + LeftAfter(ago) >= work.lease
  BY WorkFields DEF LeftAfter

\* No step takes more of a lease than the time that goes by.
LEMMA GrantStep ==
    ASSUME GrantInv, [TimingNext]_timingVars PROVE GrantInv'
<1>1. /\ work.timeout \in Nat /\ work.lease \in Nat
      /\ late \in Nat /\ age \in Nat /\ left \in Nat /\ asked \in Nat /\ failed \in Nat
      /\ MaxLatency \in Nat /\ MaxLate \in Nat /\ MaxAge \in Nat
  BY WorkFields, TimingAssumption DEF GrantInv, TimingTypeOK
<1> USE DEF GrantInv, TimingTypeOK, Starts, Granted, renewing, Elsewhere, Goto, Stages
<1>2. CASE Begin
  BY <1>1, <1>2 DEF Begin
<1>3. CASE Convert
  BY <1>1, <1>3 DEF Convert
<1>4. CASE LookAtSignal
  BY <1>1, <1>4 DEF LookAtSignal
<1>5. CASE Settle
  BY <1>1, <1>5 DEF Settle
<1>6. CASE TakenOver
  BY <1>1, <1>6 DEF TakenOver
<1>7. CASE Ask
  BY <1>1, <1>7 DEF Ask
<1>8. CASE Renewed
  <2>1. PICK ago \in 0..asked : left' = LeftAfter(ago)
    BY <1>8 DEF Renewed
  <2>2. left' \in Nat /\ ago + left' >= work.lease
    BY <1>1, <2>1, LeftAfterFacts
  <2>3. QED
    BY <1>1, <1>8, <2>2 DEF Renewed
<1>9. CASE RenewalFails
  <2>1. left' \in Nat /\ (left' = left \/ asked + left' >= work.lease)
    BY <1>1, <1>9, LeftAfterFacts DEF RenewalFails
  <2>2. failed' \in Nat
    BY <1>1, <1>9 DEF RenewalFails
  <2>3. QED
    BY <1>1, <1>9, <2>1, <2>2 DEF RenewalFails
<1>10. CASE RenewalRefused
  BY <1>1, <1>10 DEF RenewalRefused
<1>11. CASE Stop
  BY <1>1, <1>11 DEF Stop
<1>12. CASE Pass
  <2>1. left' \in Nat /\ left' + 1 >= left
    BY <1>1, <1>12 DEF Pass
  <2>2. PICK l \in Nat, a \in Nat, n \in Nat, n1 \in Nat :
          l = late /\ a = age /\ n = left /\ n1 = left'
    BY <1>1, <2>1
  <2>3. l + a + 1 + n1 >= work.lease
    <3>1. l + a + n >= work.lease /\ n1 + 1 >= n
      BY <2>1, <2>2
    <3>2. QED
      BY <1>1, <3>1
  <2>4. CASE stage = "claimed"
    <3>1. late' = l + 1 /\ UNCHANGED <<work, age, stage, mine, renewer, due, failed, asked>>
      BY <1>12, <2>2, <2>4 DEF Pass
    <3>2. TimingTypeOK'
      BY <1>1, <2>1, <3>1
    <3>3. Starts'
      BY <1>1, <2>4, <3>1
    <3>4. Granted'
      BY <2>2, <2>3, <3>1
    <3>5. QED
      BY <3>2, <3>3, <3>4
  <2>5. CASE stage # "claimed"
    <3>1. /\ age' = a + 1 /\ UNCHANGED <<work, late, stage, mine, renewer, failed>>
          /\ asked' = asked \/ (asked' = asked + 1 /\ asked < MaxLatency)
      BY <1>1, <1>12, <2>2, <2>5 DEF Pass, Urgent
    <3>2. TimingTypeOK'
      BY <1>1, <2>1, <3>1
    <3>3. Starts'
      BY <1>1, <2>2, <2>5, <3>1
    <3>4. Granted'
      BY <2>2, <2>3, <3>1
    <3>5. QED
      BY <3>2, <3>3, <3>4
  <2>6. QED
    BY <2>4, <2>5
<1>13. CASE UNCHANGED timingVars
  BY <1>13 DEF timingVars
<1>14. QED
  BY <1>2, <1>3, <1>4, <1>5, <1>6, <1>7, <1>8, <1>9, <1>10, <1>11, <1>12, <1>13
  DEF TimingNext

\* A claim grants a whole lease.
LEMMA GrantInit == TimingInit => GrantInv
<1> SUFFICES ASSUME TimingInit PROVE GrantInv
  OBVIOUS
<1>1. work \in Timings /\ Valid(work) /\ work.lease \in Nat /\ MaxLatency \in Nat
  BY TimingAssumption DEF TimingInit
<1>2. QED
  BY <1>1 DEF TimingInit, GrantInv, TimingTypeOK, Starts, Granted, Stages

\* A lease outlasts JOB_TIMEOUT without a single renewal, unless process began late.
THEOREM LeaseOutlivesTheJobHolds == TimingSpec => []LeaseOutlivesTheJob
<1>1. GrantInv => LeaseOutlivesTheJob
  BY WorkFields DEF GrantInv, TimingTypeOK, Granted, Valid, LeaseOutlivesTheJob
<1>2. QED
  BY <1>1, GrantInit, GrantStep, PTL DEF TimingSpec

---------------------------------------------------------------------------
(* A lease of which one renewal in two fails *)

Third == work.lease \div 3
Expiry == late + age + left

\* The hypothesis of PublicationHasAThird.
Patchy == failed <= 1 /\ late <= MaxLatency

\* One interval of the ticker, or two when the last renewal failed.
Missed == IF failed = 0 THEN Interval ELSE 2 * Interval

\* The tick before this moment.
LastTick == age - (age % Interval)

\* The last renewal that succeeded began with the last tick, when none is due or under
\* way, or one interval before the one that is; one interval more if one failed.
Fresh ==
    Patchy /\ age < work.timeout /\ stage # "over" =>
        /\ renewer = "waiting" /\ ~due => Expiry >= work.lease + LastTick + Interval - Missed
        /\ renewer = "waiting" /\ due => Expiry >= work.lease + age - Missed
        /\ renewer = "asking" => Expiry >= work.lease + (age - asked) - Missed

\* A renewal that no tick waits for began after the last tick.
TickTaken == renewer = "asking" /\ ~due => asked <= age % Interval

\* So the lease does not run out while jobCtx lasts,
Lasts == Patchy /\ age < work.timeout => left > 0

\* and at its end has still to last for a third.
After == Patchy /\ age >= work.timeout => Expiry >= work.timeout + Third - MaxLatency

\* The goroutine gives up only with jobCtx or its lease, and loses that one only when
\* more renewals fail, when process begins late, or after the end.
Ends ==
    /\ ~mine => failed > 1 \/ late > MaxLatency \/ age >= work.timeout
    /\ renewer = "stopped" => ~mine \/ JobDone

\* Renewals are answered in less than half an interval, which is a third of the lease.
Prompt == Second <= Third /\ 2 * MaxLatency < Third

Ticking == Fresh /\ TickTaken /\ Lasts /\ After /\ Ends

ThirdInv == GrantInv /\ (Prompt => Ticking)

\* The numbers that the steps below compare.
LEMMA Lengths ==
    ASSUME GrantInv, Prompt
    PROVE  \E L \in Nat, T \in Nat, I \in Nat \ {0}, M \in Nat :
              /\ L = work.lease /\ T = work.timeout /\ M = MaxLatency
              /\ I = Interval /\ I = Third
              /\ 3 * I <= L /\ 2 * M < I /\ T < L
<1>1. work.timeout \in Nat /\ work.lease \in Nat /\ work.timeout < work.lease
  BY WorkFields DEF GrantInv, TimingTypeOK, Valid
<1>2. MaxLatency \in Nat /\ Second \in Nat
  BY TimingAssumption
<1>3. Third \in Nat /\ 3 * Third <= work.lease
  BY <1>1, Thirds DEF Third
<1>4. Interval = Third
  BY <1>2, <1>3 DEF Prompt, Interval, Third
<1>5. Third # 0
  BY <1>2, <1>3 DEF Prompt
<1>6. QED
  BY <1>1, <1>2, <1>3, <1>4, <1>5 DEF Prompt

\* The clocks of a run.
LEMMA Clocks ==
    ASSUME GrantInv
    PROVE  \E l \in Nat, a \in Nat, n \in Nat, q \in Nat, f \in Nat :
              l = late /\ a = age /\ n = left /\ q = asked /\ f = failed
  BY DEF GrantInv, TimingTypeOK

\* The steps of process, which leave the renewals alone.
LEMMA ProcessTicking ==
    ASSUME GrantInv, GrantInv', Prompt, Ticking,
           \/ stage # "claimed" /\ stage # "over" /\ UNCHANGED renewer
           \/ Begin,
           UNCHANGED <<work, late, age, left, mine, due, asked, failed, lost>>
    PROVE  Ticking'
<1>1. PICK L \in Nat, T \in Nat, I \in Nat \ {0}, M \in Nat :
         /\ L = work.lease /\ T = work.timeout /\ M = MaxLatency
         /\ I = Interval /\ I = Third
         /\ 3 * I <= L /\ 2 * M < I /\ T < L
  BY Lengths
<1>2. /\ UNCHANGED <<Expiry, Interval, Third, Missed, Patchy, LastTick>>
      /\ UNCHANGED <<work, late, age, left, mine, due, asked, failed>>
  BY DEF Expiry, Interval, Third, Missed, Patchy, LastTick
<1>3. CASE stage # "claimed" /\ stage # "over" /\ UNCHANGED renewer
  BY <1>2, <1>3 DEF Ticking, Fresh, TickTaken, Lasts, After, Ends, JobDone
<1>4. CASE Begin
  <2>1. stage = "claimed" /\ renewer' = "waiting" /\ age = 0 /\ failed = 0 /\ ~due
    BY <1>4 DEF Begin, GrantInv, Starts
  <2>2. /\ TickTaken' /\ Lasts' /\ After' /\ Ends'
        /\ renewer' = "waiting" /\ ~due'
    BY <1>2, <2>1 DEF Ticking, TickTaken, Lasts, After, Ends, JobDone
  <2>3. Fresh'
    <3>1. 0 % Interval \in 0..(Interval - 1)
      BY <1>1, NextTick
    <3>2. Missed = Interval /\ LastTick <= 0 /\ LastTick \in Int
      BY <1>1, <2>1, <3>1 DEF Missed, LastTick
    <3>3. PICK t \in Int, e \in Nat : t = LastTick /\ e = Expiry
      BY <3>2 DEF GrantInv, TimingTypeOK, Expiry
    <3>4. e >= L
      BY <1>1, <3>3 DEF GrantInv, Granted, Expiry
    <3>5. e >= L + t + I - I
      BY <3>2, <3>3, <3>4
    <3>6. Expiry' >= work'.lease + LastTick' + Interval' - Missed'
      BY <1>1, <1>2, <3>2, <3>3, <3>5
    <3>7. QED
      BY <2>2, <3>6 DEF Fresh
  <2>4. QED
    BY <2>2, <2>3 DEF Ticking
<1>5. QED
  BY <1>3, <1>4

\* Somebody takes the job: its lease has run out.
LEMMA TakenOverTicking ==
    ASSUME GrantInv, GrantInv', Prompt, Ticking, TakenOver PROVE Ticking'
<1>1. /\ left = 0 /\ UNCHANGED <<work, stage, late, age, left, renewer, due, asked, failed>>
      /\ UNCHANGED <<Expiry, Interval, Third, Missed, Patchy, LastTick>>
  BY DEF TakenOver, renewing, Expiry, Interval, Third, Missed, Patchy, LastTick
<1>2. Fresh' /\ TickTaken' /\ Lasts' /\ After'
  BY <1>1 DEF Ticking, Fresh, TickTaken, Lasts, After
<1>3. Ends'
  <2>1. failed > 1 \/ late > MaxLatency \/ age >= work.timeout
    <3>1. PICK L \in Nat, T \in Nat, I \in Nat \ {0}, M \in Nat :
             T = work.timeout /\ M = MaxLatency
      BY Lengths
    <3>2. PICK l \in Nat, a \in Nat, f \in Nat : l = late /\ a = age /\ f = failed
      BY Clocks
    <3>3. ~(f <= 1 /\ l <= M /\ a < T)
      BY <1>1, <3>1, <3>2 DEF Ticking, Lasts, Patchy
    <3>4. f > 1 \/ l > M \/ a >= T
      BY <3>3
    <3>5. QED
      BY <3>1, <3>2, <3>4
  <2>2. QED
    BY <1>1, <2>1 DEF Ends, TakenOver
<1>4. QED
  BY <1>2, <1>3 DEF Ticking

\* The goroutine takes a tick, or ends.
LEMMA AskTicking ==
    ASSUME GrantInv, GrantInv', Prompt, Ticking, Ask \/ RenewalRefused \/ Stop
    PROVE  Ticking'
<1>1. PICK L \in Nat, T \in Nat, I \in Nat \ {0}, M \in Nat :
         /\ L = work.lease /\ T = work.timeout /\ M = MaxLatency
         /\ I = Interval /\ I = Third
         /\ 3 * I <= L /\ 2 * M < I /\ T < L
  BY Lengths
<1>2. PICK l \in Nat, a \in Nat, n \in Nat, q \in Nat, f \in Nat :
         l = late /\ a = age /\ n = left /\ q = asked /\ f = failed
  BY Clocks
<1>3. /\ UNCHANGED <<Expiry, Interval, Third, Missed, Patchy, LastTick>>
      /\ UNCHANGED <<work, stage, late, age, left, mine, failed>>
  BY DEF Ask, RenewalRefused, Stop, Elsewhere, Expiry, Interval, Third, Missed, Patchy,
         LastTick
<1>4. Lasts' /\ After'
  BY <1>3 DEF Ticking, Lasts, After
<1>5. CASE Ask
  <2>1. /\ renewer = "waiting" /\ due
        /\ renewer' = "asking" /\ ~due' /\ asked' = 0
    BY <1>5 DEF Ask
  <2>2. age - asked' = age
    BY <1>2, <2>1
  <2>3. Fresh'
    BY <1>3, <2>1, <2>2 DEF Ticking, Fresh
  <2>4. PICK r \in 0..(I - 1) : r = age % Interval
    BY <1>1, <1>2, NextTick
  <2>5. TickTaken'
    <3>1. age' % Interval' = r /\ 0 <= r
      BY <1>3, <2>4
    <3>2. QED
      BY <2>1, <3>1 DEF TickTaken
  <2>6. Ends'
    BY <1>3, <2>1 DEF Ticking, Ends
  <2>7. QED
    BY <1>4, <2>3, <2>5, <2>6 DEF Ticking
<1>6. CASE RenewalRefused \/ Stop
  <2>1. renewer' = "stopped" /\ (~mine \/ JobDone)
    BY <1>6 DEF RenewalRefused, Stop
  <2>2. QED
    BY <1>3, <1>4, <2>1 DEF Ticking, Fresh, TickTaken, Ends, JobDone
<1>7. QED
  BY <1>5, <1>6

\* A renewal succeeds: it counts from the start of its statement.
LEMMA RenewedTicking ==
    ASSUME GrantInv, GrantInv', Prompt, Ticking, Renewed PROVE Ticking'
<1>1. PICK L \in Nat, T \in Nat, I \in Nat \ {0}, M \in Nat :
         /\ L = work.lease /\ T = work.timeout /\ M = MaxLatency
         /\ I = Interval /\ I = Third
         /\ 3 * I <= L /\ 2 * M < I /\ T < L
  BY Lengths
<1>2. PICK l \in Nat, a \in Nat, n \in Nat, q \in Nat, f \in Nat :
         l = late /\ a = age /\ n = left /\ q = asked /\ f = failed
  BY Clocks
<1>3. /\ UNCHANGED <<Interval, Third, LastTick>>
      /\ UNCHANGED <<work, stage, late, age, due, mine>>
      /\ mine /\ renewer = "asking" /\ renewer' = "waiting" /\ failed' = 0
  BY DEF Renewed, Elsewhere, Interval, Third, LastTick
<1>4. PICK g \in Nat, n1 \in Nat : g <= q /\ n1 = left' /\ g + n1 >= L
  <2>1. PICK g \in 0..q : left' = LeftAfter(g)
    BY <1>2 DEF Renewed
  <2>2. g \in Nat /\ g <= q
    BY <1>2, <2>1
  <2>3. LeftAfter(g) \in Nat /\ g + LeftAfter(g) >= L
    BY <1>1, <2>2, LeftAfterFacts DEF GrantInv
  <2>4. QED
    BY <2>1, <2>2, <2>3
<1>5. q <= M
  BY <1>1, <1>2 DEF GrantInv, Starts
<1>6. l + a + n1 >= L + a - q /\ n1 > 0
  BY <1>1, <1>4, <1>5
<1>7. Expiry' = l + a + n1 /\ Missed' = I
  BY <1>1, <1>2, <1>3, <1>4 DEF Expiry, Missed
<1>8. Fresh'
  <2>1. due => l + a + n1 >= L + a - I
    BY <1>1, <1>5, <1>6
  <2>2. PICK r \in 0..(I - 1) : r = age % Interval
    BY <1>1, <1>2, NextTick
  <2>3. LastTick' = a - r
    BY <1>2, <1>3, <2>2 DEF LastTick
  <2>4. ~due => l + a + n1 >= L + (a - r) + I - I
    <3>1. ~due => q <= r
      BY <1>2, <1>3, <2>2 DEF Ticking, TickTaken
    <3>2. QED
      BY <1>6, <2>2, <3>1
  <2>5. QED
    BY <1>1, <1>2, <1>3, <1>7, <2>1, <2>3, <2>4 DEF Fresh
<1>9. After'
  <2>1. a >= T => l + a + n1 >= T + I - M
    BY <1>1, <1>5, <1>6
  <2>2. QED
    BY <1>1, <1>2, <1>3, <1>7, <2>1 DEF After
<1>10. TickTaken' /\ Lasts' /\ Ends'
  BY <1>3, <1>4, <1>6 DEF TickTaken, Lasts, Ends
<1>11. QED
  BY <1>8, <1>9, <1>10 DEF Ticking

\* A renewal fails, and counts as failed while jobCtx lasts.
LEMMA FailsTicking ==
    ASSUME GrantInv, GrantInv', Prompt, Ticking, RenewalFails PROVE Ticking'
<1>1. PICK L \in Nat, T \in Nat, I \in Nat \ {0}, M \in Nat :
         /\ L = work.lease /\ T = work.timeout /\ M = MaxLatency
         /\ I = Interval /\ I = Third
         /\ 3 * I <= L /\ 2 * M < I /\ T < L
  BY Lengths
<1>2. PICK l \in Nat, a \in Nat, n \in Nat, q \in Nat, f \in Nat :
         l = late /\ a = age /\ n = left /\ q = asked /\ f = failed
  BY Clocks
<1>3. /\ UNCHANGED <<Interval, Third, LastTick>>
      /\ UNCHANGED <<work, stage, late, age, due, mine>>
      /\ renewer = "asking" /\ renewer' = "waiting"
      /\ failed' = IF JobDone THEN f ELSE f + 1
  BY <1>2 DEF RenewalFails, Elsewhere, Interval, Third, LastTick
<1>4. PICK n1 \in Nat : n1 = left' /\ (n1 = n \/ q + n1 >= L)
  BY <1>1, <1>2, LeftAfterFacts DEF RenewalFails, GrantInv
<1>5. q <= M
  BY <1>1, <1>2 DEF GrantInv, Starts
<1>6. Expiry = l + a + n /\ Expiry' = l + a + n1
  BY <1>2, <1>3, <1>4 DEF Expiry
<1>7. Patchy' => Patchy
  BY <1>2, <1>3 DEF Patchy
<1>8. Fresh'
  <2>1. SUFFICES ASSUME Patchy', a < T, stage # "over"
                 PROVE  /\ ~due => Expiry' >= L + LastTick' + Interval' - Missed'
                        /\ due => Expiry' >= L + a - Missed'
    BY <1>1, <1>2, <1>3 DEF Fresh
  <2>2. ~JobDone /\ f = 0 /\ failed' = 1
    BY <1>1, <1>2, <1>3, <2>1 DEF JobDone, Patchy
  <2>3. Missed = I /\ Missed' = 2 * I
    <3>1. failed = 0 /\ failed' # 0
      BY <1>2, <2>2
    <3>2. QED
      BY <1>1, <1>3, <3>1 DEF Missed
  <2>4. l + a + n1 >= L + (a - q) - I
    <3>1. l + a + n >= L + (a - q) - I
      BY <1>1, <1>2, <1>3, <1>6, <1>7, <2>1, <2>3 DEF Ticking, Fresh
    <3>2. CASE n1 = n
      BY <3>1, <3>2
    <3>3. CASE q + n1 >= L
      BY <1>1, <3>3
    <3>4. QED
      BY <1>4, <3>2, <3>3
  <2>5. due => l + a + n1 >= L + a - 2 * I
    BY <1>1, <1>5, <2>4
  <2>6. PICK r \in 0..(I - 1) : r = age % Interval
    BY <1>1, <1>2, NextTick
  <2>7. LastTick' = a - r
    BY <1>2, <1>3, <2>6 DEF LastTick
  <2>8. ~due => l + a + n1 >= L + (a - r) + I - 2 * I
    <3>1. ~due => q <= r
      BY <1>2, <1>3, <2>6 DEF Ticking, TickTaken
    <3>2. QED
      BY <1>1, <2>4, <2>6, <3>1
  <2>9. QED
    BY <1>1, <1>3, <1>6, <2>3, <2>5, <2>7, <2>8
<1>9. Lasts'
  <2>1. q + n1 >= L => n1 > 0
    BY <1>1, <1>5
  <2>2. QED
    BY <1>2, <1>3, <1>4, <1>7, <2>1 DEF Ticking, Lasts
<1>10. After'
  <2>1. a >= T /\ q + n1 >= L => l + a + n1 >= T + I - M
    BY <1>1, <1>5
  <2>2. QED
    BY <1>1, <1>2, <1>3, <1>4, <1>6, <1>7, <2>1 DEF Ticking, After
<1>11. TickTaken' /\ Ends'
  <2>1. failed > 1 => failed' > 1
    BY <1>2, <1>3
  <2>2. QED
    BY <1>3, <2>1 DEF Ticking, TickTaken, Ends
<1>12. QED
  BY <1>8, <1>9, <1>10, <1>11 DEF Ticking

\* A unit goes by before process begins.
LEMMA IdleTicking ==
    ASSUME GrantInv, GrantInv', Prompt, Ticking, Pass, stage = "claimed" PROVE Ticking'
<1>1. PICK L \in Nat, T \in Nat, I \in Nat \ {0}, M \in Nat :
         /\ L = work.lease /\ T = work.timeout /\ M = MaxLatency
         /\ I = Interval /\ I = Third
         /\ 3 * I <= L /\ 2 * M < I /\ T < L
  BY Lengths
<1>2. PICK l \in Nat, a \in Nat, n \in Nat, q \in Nat, f \in Nat :
         l = late /\ a = age /\ n = left /\ q = asked /\ f = failed
  BY Clocks
<1>3. /\ UNCHANGED <<work, stage, age, due, mine, renewer, failed, asked>>
      /\ renewer = "off" /\ late' = l + 1
  BY <1>2 DEF Pass, GrantInv, Starts
<1>4. PICK n1 \in Nat : n1 = left' /\ n1 + 1 >= n /\ l + 1 + a + n1 >= L
  <2>1. left' \in Nat /\ left' + 1 >= left
    BY <1>2 DEF Pass
  <2>2. late' + age' + left' >= work'.lease
    BY DEF GrantInv, Granted
  <2>3. l + 1 + a + left' >= L
    BY <1>1, <1>2, <1>3, <2>2
  <2>4. QED
    BY <1>2, <2>1, <2>3
<1>5. a = 0
  BY <1>2 DEF GrantInv, Starts
<1>6. Fresh' /\ TickTaken'
  BY <1>3 DEF Fresh, TickTaken
<1>7. Lasts'
  <2>1. l + 1 <= M => n1 > 0
    BY <1>1, <1>4, <1>5
  <2>2. QED
    BY <1>1, <1>3, <1>4, <2>1 DEF Lasts, Patchy
<1>8. After'
  <2>1. l + 1 + a + n1 >= T + I - M \/ a < T
    BY <1>1, <1>4, <1>5
  <2>2. QED
    BY <1>1, <1>2, <1>3, <1>4, <2>1 DEF After, Expiry, Third
<1>9. Ends'
  <2>1. l > M => l + 1 > M
    BY <1>1
  <2>2. QED
    BY <1>1, <1>2, <1>3, <2>1 DEF Ticking, Ends
<1>10. QED
  BY <1>6, <1>7, <1>8, <1>9 DEF Ticking

\* A unit of process goes by, perhaps the last one of jobCtx.  The goroutine has nothing
\* to do: no tick is due, or a renewal is under way.
LEMMA PassTicking ==
    ASSUME GrantInv, GrantInv', Prompt, Ticking, Pass, stage # "claimed" PROVE Ticking'
<1>1. PICK L \in Nat, T \in Nat, I \in Nat \ {0}, M \in Nat :
         /\ L = work.lease /\ T = work.timeout /\ M = MaxLatency
         /\ I = Interval /\ I = Third
         /\ 3 * I <= L /\ 2 * M < I /\ T < L
  BY Lengths
<1>2. PICK l \in Nat, a \in Nat, n \in Nat, q \in Nat, f \in Nat :
         l = late /\ a = age /\ n = left /\ q = asked /\ f = failed
  BY Clocks
<1>3. /\ UNCHANGED <<work, stage, late, mine, renewer, failed>>
      /\ UNCHANGED <<Interval, Third, Missed, Patchy>>
      /\ stage # "over" /\ age' = a + 1
      /\ renewer = "waiting" => ~due /\ a < T
      /\ renewer = "asking" => q < M /\ asked' = q + 1
      /\ due' = (due \/ age' % Interval = 0)
  BY <1>1, <1>2, TimingAssumption
  DEF Pass, Urgent, JobDone, Interval, Third, Missed, Patchy
<1>4. PICK n1 \in Nat : n1 + 1 >= n /\ n1 = left'
  BY <1>2 DEF Pass
<1>5. n1 + 1 >= n
  BY <1>4
<1>6. Expiry = l + a + n /\ Expiry' = l + (a + 1) + n1 /\ l + (a + 1) + n1 >= l + a + n
  <2>1. Expiry = l + a + n /\ Expiry' = l + (a + 1) + n1
    BY <1>2, <1>3, <1>4 DEF Expiry
  <2>2. l + (a + 1) + n1 >= l + a + n
    BY <1>5
  <2>3. QED
    BY <2>1, <2>2
<1>7. PICK r \in 0..(I - 1), r1 \in 0..(I - 1) :
         /\ r = age % Interval /\ r1 = age' % Interval'
         /\ r1 = 0 \/ r1 = r + 1
  <2>1. a % I \in 0..(I - 1) /\ (a + 1) % I \in 0..(I - 1)
    BY NextTick
  <2>2. (a + 1) % I = 0 \/ (a + 1) % I = (a % I) + 1
    BY NextTick
  <2>3. QED
    BY <1>1, <1>2, <1>3, <2>1, <2>2
<1>8. TickTaken'
  <2> SUFFICES ASSUME renewer = "asking", ~due' PROVE asked' <= r1
    BY <1>3, <1>7 DEF TickTaken
  <2>1. ~due /\ r1 = r + 1
    BY <1>3, <1>7
  <2>2. q <= r
    BY <1>2, <1>7, <2>1 DEF Ticking, TickTaken
  <2>3. asked' = q + 1
    BY <1>3
  <2>4. QED
    BY <2>1, <2>2, <2>3
<1>9. PICK k \in Nat : /\ k = Missed /\ (k = I \/ k = 2 * I)
                      /\ Missed' = k /\ Interval' = I /\ Third' = I
                      /\ work'.lease = L /\ work'.timeout = T
  BY <1>1, <1>3 DEF Missed
<1>10. LastTick = a - r /\ LastTick' = a + 1 - r1
  BY <1>2, <1>3, <1>7 DEF LastTick
<1>11. Patchy /\ a < T /\ renewer = "waiting" => l + a + n >= L + (a - r) + I - k
  BY <1>1, <1>2, <1>3, <1>6, <1>9, <1>10 DEF Ticking, Fresh
<1>12. Patchy /\ a < T /\ renewer = "asking" => l + a + n >= L + (a - q) - k
  BY <1>1, <1>2, <1>3, <1>6, <1>9 DEF Ticking, Fresh
<1>13. Patchy /\ a < T => renewer \in {"waiting", "asking"}
  BY <1>1, <1>2, <1>3
  DEF Ticking, Ends, JobDone, Patchy, GrantInv, Starts, TimingTypeOK
<1>14. Fresh'
  <2> SUFFICES ASSUME Patchy', age' < work'.timeout
               PROVE  /\ renewer' = "waiting" /\ ~due'
                           => Expiry' >= work'.lease + LastTick' + Interval' - Missed'
                      /\ renewer' = "waiting" /\ due'
                           => Expiry' >= work'.lease + age' - Missed'
                      /\ renewer' = "asking"
                           => Expiry' >= work'.lease + (age' - asked') - Missed'
    BY DEF Fresh
  <2>1. Patchy /\ a < T
    BY <1>3, <1>9
  <2>2. ASSUME renewer' = "waiting", ~due'
        PROVE  Expiry' >= work'.lease + LastTick' + Interval' - Missed'
    <3>1. r1 = r + 1 /\ l + a + n >= L + (a - r) + I - k
      BY <1>3, <1>7, <1>11, <2>1, <2>2
    <3>2. l + (a + 1) + n1 >= L + (a + 1 - r1) + I - k
      BY <1>6, <3>1
    <3>3. QED
      BY <1>6, <1>9, <1>10, <3>2
  <2>3. ASSUME renewer' = "waiting"
        PROVE  Expiry' >= work'.lease + age' - Missed'
    <3>1. l + a + n >= L + (a - r) + I - k /\ r + 1 <= I
      BY <1>3, <1>11, <2>1, <2>3
    <3>2. l + (a + 1) + n1 >= L + (a + 1) - k
      BY <1>5, <3>1
    <3>3. QED
      BY <1>3, <1>6, <1>9, <3>2
  <2>4. ASSUME renewer' = "asking"
        PROVE  Expiry' >= work'.lease + (age' - asked') - Missed'
    <3>1. l + a + n >= L + (a - q) - k /\ asked' = q + 1
      BY <1>3, <1>12, <2>1, <2>4
    <3>2. l + (a + 1) + n1 >= L + (a + 1 - (q + 1)) - k
      BY <1>5, <3>1
    <3>3. QED
      BY <1>3, <1>6, <1>9, <3>1, <3>2
  <2>5. QED
    BY <2>2, <2>3, <2>4
<1>15. Lasts'
  <2> SUFFICES ASSUME Patchy, a + 1 < T PROVE n1 > 0
    BY <1>1, <1>3, <1>4 DEF Lasts
  <2>1. l <= M /\ q <= M
    BY <1>1, <1>2 DEF Patchy, GrantInv, Starts
  <2>2. CASE renewer = "waiting"
    <3>1. l + a + n >= L + (a - r) + I - k
      BY <1>11, <2>2
    <3>2. n >= L - r + I - k - M
      BY <1>9, <2>1, <3>1
    <3>3. n >= 2
      BY <1>1, <1>9, <3>2
    <3>4. QED
      BY <1>5, <3>3
  <2>3. CASE renewer = "asking"
    <3>1. l + a + n >= L + (a - q) - k /\ q < M
      BY <1>3, <1>12, <2>3
    <3>2. n >= L - q - k - M
      BY <1>9, <2>1, <3>1
    <3>3. n >= 2
      BY <1>1, <1>9, <3>1, <3>2
    <3>4. QED
      BY <1>5, <3>3
  <2>4. QED
    BY <1>13, <2>2, <2>3
<1>16. After'
  <2> SUFFICES ASSUME Patchy, a + 1 >= T PROVE l + (a + 1) + n1 >= T + I - M
    BY <1>1, <1>3, <1>6 DEF After
  <2>1. CASE a >= T
    BY <1>1, <1>2, <1>6, <2>1 DEF Ticking, After
  <2>2. CASE a < T
    <3>1. q <= M
      BY <1>1, <1>2 DEF GrantInv, Starts
    <3>2. CASE renewer = "waiting"
      BY <1>1, <1>6, <1>9, <1>11, <2>2, <3>2
    <3>3. CASE renewer = "asking"
      BY <1>1, <1>3, <1>6, <1>9, <1>12, <2>2, <3>3
    <3>4. QED
      BY <1>13, <2>2, <3>2, <3>3
  <2>3. QED
    BY <2>1, <2>2
<1>17. Ends'
  <2>1. a >= T => a + 1 >= T
    BY <1>1
  <2>2. QED
    BY <1>1, <1>2, <1>3, <2>1 DEF Ticking, Ends, JobDone
<1>18. QED
  BY <1>8, <1>14, <1>15, <1>16, <1>17 DEF Ticking

\* Whatever happens, the last renewal that succeeded stays in sight.
LEMMA ThirdStep ==
    ASSUME ThirdInv, [TimingNext]_timingVars PROVE ThirdInv'
<1>1. GrantInv' /\ GrantInv
  BY GrantStep DEF ThirdInv
<1>2. work' = work
  BY DEF TimingNext, Begin, Convert, LookAtSignal, Settle, TakenOver, Ask, Renewed,
         RenewalFails, RenewalRefused, Stop, Pass, Goto, Elsewhere, timingVars
<1>3. Prompt' => Prompt
  BY <1>2 DEF Prompt, Third
<1>4. SUFFICES ASSUME Prompt, Ticking PROVE Ticking'
  BY <1>1, <1>3 DEF ThirdInv
<1>5. CASE Begin
  BY <1>1, <1>4, <1>5, ProcessTicking DEF Begin, Goto
<1>6. CASE Convert \/ LookAtSignal \/ Settle
  BY <1>1, <1>4, <1>6, ProcessTicking DEF Convert, LookAtSignal, Settle, Goto, renewing
<1>7. CASE TakenOver
  BY <1>1, <1>4, <1>7, TakenOverTicking
<1>8. CASE Ask \/ RenewalRefused \/ Stop
  BY <1>1, <1>4, <1>8, AskTicking
<1>9. CASE Renewed
  BY <1>1, <1>4, <1>9, RenewedTicking
<1>10. CASE RenewalFails
  BY <1>1, <1>4, <1>10, FailsTicking
<1>11. CASE Pass
  BY <1>1, <1>4, <1>11, IdleTicking, PassTicking
<1>12. CASE UNCHANGED timingVars
  BY <1>4, <1>12
  DEF timingVars, renewing, Ticking, Fresh, TickTaken, Lasts, After, Ends, Patchy, Expiry,
      LastTick, Interval, Missed, Third, JobDone
<1>13. QED
  BY <1>5, <1>6, <1>7, <1>8, <1>9, <1>10, <1>11, <1>12 DEF TimingNext

\* A claim is as good as a renewal.
LEMMA ThirdInit == TimingInit => ThirdInv
<1> SUFFICES ASSUME TimingInit PROVE ThirdInv
  OBVIOUS
<1>1. GrantInv
  BY GrantInit
<1>2. SUFFICES ASSUME Prompt PROVE Ticking
  BY <1>1 DEF ThirdInv
<1>3. PICK L \in Nat, T \in Nat, I \in Nat \ {0}, M \in Nat :
         /\ L = work.lease /\ T = work.timeout /\ M = MaxLatency
         /\ I = Interval /\ I = Third
         /\ 3 * I <= L /\ 2 * M < I /\ T < L
  BY <1>1, <1>2, Lengths
<1>4. late = 0 /\ age = 0 /\ left = L /\ renewer = "off" /\ mine
  BY <1>3 DEF TimingInit
<1>5. Fresh /\ TickTaken /\ Ends
  BY <1>4 DEF Fresh, TickTaken, Ends
<1>6. Lasts /\ After
  <2>1. (L > 0 /\ L >= T + I - M) \/ 0 < T
    BY <1>3
  <2>2. L > 0
    BY <1>3
  <2>3. QED
    BY <1>3, <1>4, <2>1, <2>2 DEF Lasts, After, Expiry
<1>7. QED
  BY <1>5, <1>6 DEF Ticking

\* JOB_TIMEOUT leaves less than a third of the lease, but for what a statement takes.
Tight(w) == w.timeout > w.lease - w.lease \div 3 + MaxLatency

\* What the timings have to satisfy: where the lease leaves less than a third after the
\* timeout, renewals are answered promptly.
PromptRenewals ==
    \A w \in Timings : Valid(w) /\ Tight(w) =>
        Second <= w.lease \div 3 /\ 2 * MaxLatency < w.lease \div 3

\* When of any two renewals one failed, the publication has still a third of the lease.
THEOREM PublicationHasAThirdHolds ==
    ASSUME PromptRenewals PROVE TimingSpec => []PublicationHasAThird
<1>1. ASSUME ThirdInv PROVE PublicationHasAThird
  <2> SUFFICES ASSUME left = 0, failed <= 1, late <= MaxLatency
               PROVE  late + age >= work.timeout + work.lease \div 3 - MaxLatency
    BY DEF PublicationHasAThird
  <2>1. GrantInv
    BY <1>1 DEF ThirdInv
  <2>2. PICK L \in Nat, T \in Nat, D \in Nat, M \in Nat :
           /\ L = work.lease /\ T = work.timeout /\ D = work.lease \div 3
           /\ M = MaxLatency
    BY <2>1, WorkFields, Thirds, TimingAssumption DEF GrantInv
  <2>3. PICK l \in Nat, a \in Nat : l = late /\ a = age
    BY <2>1, Clocks
  <2>4. CASE Tight(work)
    <3>1. Prompt
      BY <2>1, <2>4 DEF PromptRenewals, Prompt, Third, GrantInv, TimingTypeOK
    <3>2. ~(a < T)
      BY <1>1, <2>2, <2>3, <3>1 DEF ThirdInv, Ticking, Lasts, Patchy
    <3>3. a >= T
      BY <3>2
    <3>4. l + a + 0 >= T + D - M
      BY <1>1, <2>2, <2>3, <3>1, <3>3
      DEF ThirdInv, Ticking, After, Patchy, Expiry, Third
    <3>5. QED
      BY <2>2, <2>3, <3>4
  <2>5. CASE ~Tight(work)
    <3>1. ~(T > L - D + M)
      BY <2>2, <2>5 DEF Tight
    <3>2. l + a + 0 >= L
      BY <2>1, <2>2, <2>3 DEF GrantInv, Granted
    <3>3. l + a >= T + D - M
      BY <3>1, <3>2
    <3>4. QED
      BY <2>2, <2>3, <3>3
  <2>6. QED
    BY <2>4, <2>5
<1>2. QED
  BY <1>1, ThirdInit, ThirdStep, PTL DEF TimingSpec

=============================================================================
