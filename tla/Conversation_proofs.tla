------------------------ MODULE Conversation_proofs -------------------------
(***************************************************************************)
(* What is said on the talker's pipes, for every plan: the numbers of the  *)
(* requests, the totals of their audio and the cancels that hit them; and  *)
(* how the bytes of the control pipe are the records that were written.    *)
(***************************************************************************)
EXTENDS ProviderSession_proofs

-----------------------------------------------------------------------------
(* What is said, while the talker holds its pipes.                         *)

Queue == pairs[Home].commands

Sound == pairs[Home].pcm

\* Request n has been heard of: it is in the task, in a record, or in the audio.
Uses(n, id, s, h, b) ==
    \/ n \in {0, id}
    \/ \E i \in 1 .. Len(s) : s[i].id = n
    \/ \E i \in 1 .. Len(h) : h[i] = n
    \/ \E i \in 1 .. Len(b) : b[i] = n

\* One request is on its way at a time, the last one that was made.
OneSpeak ==
    \A i \in 1 .. Len(Queue) : Queue[i].kind = "speak" =>
       /\ Queue[i].id = talk.id
       /\ \A j \in 1 .. Len(Queue) : Queue[j].kind = "speak" => j = i

\* The requests that a cancel may reach: their own, or one that was late for another.
Reached == talk.cancelled \cup talk.late

\* A cancel may reach the request it follows, if it follows one.
CancelsFollow ==
    \A i \in 1 .. Len(Queue) : Queue[i].kind = "cancel" =>
       \A j \in 1 .. Len(Queue) :
          j < i /\ Queue[j].kind = "speak" => Queue[j].id \in Reached

UsedIds == \A n \in Nat : Uses(n, task.id, sent, heard, Bytes) => n <= talk.id

Fresh ==
    \A i \in 1 .. Len(Queue) : Queue[i].kind = "speak" =>
       ~Uses(talk.id, task.id, sent, heard, Bytes)

AudioIsOfTask ==
    Sound # <<>> =>
       /\ task.pair = Home /\ Connected(Home) /\ task.place \in {"write", "flushing"}
       /\ \A i \in 1 .. Len(Sound) : Sound[i] = task.id

RequestsInv == OneSpeak /\ CancelsFollow /\ UsedIds /\ Fresh

Both(n, h, b) == Count(n, h) + Count(n, b)

\* The halves of a request's audio that were read.
Taking(n) == Both(n, heard, Bytes)

Written == {"word", "delay", "complete", "flush"}

Writing == {"write", "flushing"}

\* What was read of the task's audio is what it has counted, but for what is being written.
SoundCounted ==
    task.pair = Home /\ Connected(Home) =>
       /\ task.place \in Written => Taking(task.id) = task.written
       /\ task.place \in Writing => Taking(task.id) + Len(Sound) = task.written + 2
       /\ task.place \in {"late", "ack"} => Taking(task.id) - task.written \in {0, 1}

TaskCounted ==
    /\ task.place \in Written \cup Writing => task.total = task.written + 2 * task.buffered
    /\ task.place \in {"late", "ack"} => task.cancelled

\* What the records say of the audio, and of the task.
RecordsCounted ==
    \A i \in 1 .. Len(sent) :
       /\ sent[i].event = "synthesis_complete" =>
             sent[i].id >= 1 /\ Taking(sent[i].id) <= sent[i].bytes
       /\ sent[i].event = "synthesis_cancelled" =>
             sent[i].id >= 1 /\ Taking(sent[i].id) - sent[i].bytes \in {0, 1}

RecordsOfTask ==
    \A i \in 1 .. Len(sent) : sent[i].id = task.id =>
       /\ sent[i].event = "synthesis_complete" =>
             /\ task.place \in {"flush", "flushing", "late", "ack", "done"}
             /\ sent[i].bytes = task.total
             /\ task.place = "done" /\ ~task.cancelled => Taking(task.id) = task.total
       /\ sent[i].event = "synthesis_cancelled" => task.place = "done"

TotalsInv == AudioIsOfTask /\ SoundCounted /\ TaskCounted /\ RecordsCounted /\ RecordsOfTask

\* The talker has been told of the end of request n, in the words of Ended.
EndedBy(n, s, l, h) ==
    \/ n = 0
    \/ \E k \in 1 .. Len(s) :
          /\ Text(k, s[k].event) \in Range(l) /\ s[k].id = n
          /\ \/ s[k].event \in {"synthesis_cancelled", "log"}
             \/ s[k].event = "synthesis_complete" /\ Count(n, h) = s[k].bytes

Over(n) == EndedBy(n, sent, lines, heard)

\* A request is made when the one before has ended.
EarlierEnded == \A n \in Nat : n < talk.id => Over(n)

\* A cancel reaches a request it may reach, or one that has ended.
CancelsHit ==
    \A i \in 1 .. Len(Queue) : Queue[i].kind = "cancel" =>
       \/ \E j \in 1 .. Len(Queue) : j < i /\ Queue[j].kind = "speak"
       \/ task.id \in Reached
       \/ Over(task.id)

CancelledByRight ==
    task.cancelled => Over(task.id) \/ task.id \in Reached \/ session[task.pair] = "ended"

CancelInv == EarlierEnded /\ CancelsHit /\ CancelledByRight

ConversationInv == Held => RequestsInv /\ TotalsInv /\ CancelInv

LEMMA EndedIs ==
    ASSUME sent \in Seq(Record), NEW n
    PROVE  Ended(n) <=> Over(n)
<1>1. DOMAIN sent = 1 .. Len(sent)
  OBVIOUS
<1>2. ASSUME Ended(n), n # 0
      PROVE  Over(n)
  <2>1. PICK r \in Got : /\ r.id = n
                         /\ \/ r.event \in {"synthesis_cancelled", "log"}
                            \/ r.event = "synthesis_complete" /\ HalvesOf(n) = r.bytes
    BY <1>2 DEF Ended
  <2>2. PICK k \in 1 .. Len(sent) : r = sent[k] /\ Text(k, sent[k].event) \in Range(lines)
    BY <1>1 DEF Got
  <2> QED
    BY <2>1, <2>2 DEF Over, EndedBy, HalvesOf
<1>3. ASSUME Over(n), n # 0
      PROVE  Ended(n)
  <2>1. PICK k \in 1 .. Len(sent) :
           /\ Text(k, sent[k].event) \in Range(lines) /\ sent[k].id = n
           /\ \/ sent[k].event \in {"synthesis_cancelled", "log"}
              \/ sent[k].event = "synthesis_complete" /\ Count(n, heard) = sent[k].bytes
    BY <1>3 DEF Over, EndedBy
  <2>2. sent[k] \in Got
    BY <1>1, <2>1 DEF Got
  <2> QED
    BY <2>1, <2>2 DEF Ended, HalvesOf
<1> QED
  BY <1>2, <1>3 DEF Ended, Over, EndedBy

\* An ended request stays ended while records, lines and audio come.
LEMMA EndedGrows ==
    ASSUME NEW n, NEW s \in Seq(Record), NEW t \in Seq(Record), NEW l, NEW m, NEW h, NEW g,
           Len(s) <= Len(t), \A k \in 1 .. Len(s) : t[k] = s[k], Range(l) \subseteq Range(m),
           \A k \in 1 .. Len(s) :
              s[k].event = "synthesis_complete" /\ s[k].id = n /\ Count(n, h) = s[k].bytes =>
                 Count(n, g) = Count(n, h),
           EndedBy(n, s, l, h)
    PROVE  EndedBy(n, t, m, g)
<1>1. CASE n = 0
  BY <1>1 DEF EndedBy
<1>2. CASE n # 0
  <2>1. PICK k \in 1 .. Len(s) :
           /\ Text(k, s[k].event) \in Range(l) /\ s[k].id = n
           /\ \/ s[k].event \in {"synthesis_cancelled", "log"}
              \/ s[k].event = "synthesis_complete" /\ Count(n, h) = s[k].bytes
    BY <1>2 DEF EndedBy
  <2>2. k \in 1 .. Len(t) /\ t[k] = s[k]
    OBVIOUS
  <2>3. Text(k, t[k].event) \in Range(m) /\ t[k].id = n
    BY <2>1, <2>2
  <2>4. \/ t[k].event \in {"synthesis_cancelled", "log"}
        \/ t[k].event = "synthesis_complete" /\ Count(n, g) = t[k].bytes
    BY <2>1, <2>2
  <2> QED
    BY <2>2, <2>3, <2>4 DEF EndedBy
<1> QED
  BY <1>1, <1>2

\* The numbers stay in order when nothing is sent and no new number is used.
LEMMA RequestsStay ==
    ASSUME RequestsInv, talk.id \in Nat, Queue' = Queue,
           talk'.id = talk.id, Reached \subseteq Reached',
           \A n \in Nat : Uses(n, task'.id, sent', heard', Bytes') =>
                          Uses(n, task.id, sent, heard, Bytes)
    PROVE  RequestsInv'
<1>1. OneSpeak' /\ CancelsFollow'
  BY DEF RequestsInv, OneSpeak, CancelsFollow
<1>2. UsedIds'
  BY DEF RequestsInv, UsedIds
<1>3. Fresh'
  BY DEF RequestsInv, Fresh
<1> QED
  BY <1>1, <1>2, <1>3 DEF RequestsInv

\* A queued request has a number that is not 0.
LEMMA QueueTyped ==
    ASSUME SpokenInv, Held
    PROVE  /\ Queue \in Seq(Command) /\ Len(Queue) \in Nat
           /\ \A i \in 1 .. Len(Queue) :
                 /\ Queue[i].id \in Nat
                 /\ Queue[i].kind = "speak" => Queue[i].id >= 1 /\ Queue[i].kind # "cancel"
           /\ Sound \in Seq(Nat) /\ Len(Sound) \in Nat /\ Len(Sound) <= 2
           /\ Home \in Pairs /\ talk.id \in Nat /\ task.id \in Nat /\ talk.cancelled \subseteq Nat
           /\ task.pair \in {0, Home} /\ Home # 0
<1>1. Home \in Pairs /\ Queue \in Seq(Command) /\ Sound \in Seq(Nat) /\ Len(Sound) <= 2
      /\ talk \in TalkType /\ task \in TaskType /\ task.pair \in {0, Home}
  BY DEF SpokenInv, HomeStands, DataTyped, SayingTyped, AtHome, Queue, Sound
<1>2. \A i \in 1 .. Len(Queue) : Queue[i] \in Command
  BY <1>1
<1>3. Home # 0
  BY <1>1, PipesAssumption DEF Pairs
<1> QED
  BY <1>1, <1>2, <1>3, TalkIsTyped DEF Command, TalkFields, TaskType

\* What is left of the audio and the task when something happens around the conversation.
LEMMA AroundKeepsTotals ==
    ASSUME SpokenInv, TotalsInv, Held, Home' = Home, PipesGo, TaskEnds,
           UNCHANGED <<sent, heard>>, Bytes' = Bytes
    PROVE  TotalsInv'
<1>1. /\ Home \in Pairs /\ Home # 0 /\ task.pair \in {0, Home}
      /\ task \in TaskType /\ TaskStands /\ sent \in Seq(Record)
  BY QueueTyped DEF SpokenInv, SayingTyped
<1>2. /\ pairs[Home].control \in {Talker, "closed"}
      /\ Sound' = Sound \/ (Sound' = <<>> /\ ~Connected(Home)')
      /\ session[Home] # "none" =>
            /\ Connected(Home)' => Connected(Home)
            /\ pairs[Home].control = Talker /\ Connected(Home) /\ Sound' # <<>> => Connected(Home)'
  BY <1>1 DEF SpokenInv, HomeStands, PipesGo, PipeGoes, Sound
<1>3. Connected(Home) => pairs[Home].control = Talker
  BY <1>2, EndsDiffer DEF Connected, Channels
<1>4. \A n : Taking(n)' = Taking(n)
  BY DEF Taking
<1>5. CASE task'.pair = task.pair /\ task'.id = task.id /\ task'.place = task.place
           /\ task'.total = task.total /\ task'.written = task.written
           /\ task'.buffered = task.buffered /\ (task.cancelled => task'.cancelled)
  <2>1. AudioIsOfTask'
    <3> SUFFICES ASSUME Sound' # <<>>
                 PROVE  /\ task'.pair = Home /\ Connected(Home)'
                        /\ task'.place \in {"write", "flushing"}
                        /\ \A i \in 1 .. Len(Sound') : Sound'[i] = task'.id
      BY DEF AudioIsOfTask
    <3>1. Sound' = Sound
      BY <1>2
    <3>2. task.pair = Home /\ Connected(Home) /\ task.place \in {"write", "flushing"}
          /\ \A i \in 1 .. Len(Sound) : Sound[i] = task.id
      BY <3>1 DEF TotalsInv, AudioIsOfTask
    <3>3. session[Home] # "none"
      BY <1>1, <3>2 DEF TaskStands
    <3> QED
      BY <1>2, <1>3, <1>5, <3>1, <3>2, <3>3
  <2>2. SoundCounted'
    <3> SUFFICES ASSUME task'.pair = Home, Connected(Home)'
                 PROVE  SoundCounted'
      BY DEF SoundCounted
    <3>1. Connected(Home) /\ Sound' = Sound
      BY <1>1, <1>2, <1>5 DEF TaskStands
    <3> QED
      BY <1>4, <1>5, <3>1 DEF TotalsInv, SoundCounted, Taking
  <2>3. TaskCounted' /\ RecordsCounted' /\ RecordsOfTask'
    BY <1>4, <1>5 DEF TotalsInv, TaskCounted, RecordsCounted, RecordsOfTask, Taking
  <2> QED
    BY <2>1, <2>2, <2>3 DEF TotalsInv
<1>6. CASE task' = NoTask /\ (task.place = "done" \/ \E p \in Pairs : task.pair = p /\ ~Connected(p)')
  <2>1. task'.pair = 0 /\ task'.id = 0 /\ task'.place = "none"
    BY <1>6 DEF NoTask
  <2>2. AudioIsOfTask'
    <3> SUFFICES ASSUME Sound' # <<>>
                 PROVE  FALSE
      BY DEF AudioIsOfTask
    <3>1. Sound' = Sound
      BY <1>2
    <3>2. task.pair = Home /\ Connected(Home) /\ task.place \in {"write", "flushing"}
      BY <3>1 DEF TotalsInv, AudioIsOfTask
    <3>3. session[Home] # "none" /\ ~Connected(Home)'
      BY <1>1, <1>6, <3>2 DEF TaskStands
    <3> QED
      BY <1>2, <1>3, <3>2, <3>3
  <2>3. SoundCounted' /\ TaskCounted'
    BY <1>1, <2>1 DEF SoundCounted, TaskCounted, Written, Writing
  <2>4. RecordsCounted'
    BY <1>4 DEF TotalsInv, RecordsCounted, Taking
  <2>5. RecordsOfTask'
    <3>1. \A i \in 1 .. Len(sent) :
             sent[i].event \in {"synthesis_complete", "synthesis_cancelled"} => sent[i].id >= 1
      BY DEF TotalsInv, RecordsCounted
    <3> QED
      BY <2>1, <3>1 DEF RecordsOfTask
  <2> QED
    BY <2>2, <2>3, <2>4, <2>5 DEF TotalsInv
<1> QED
  <2>1. CASE task' = task
    BY <1>5, <2>1
  <2>2. CASE task.pair # 0 /\ task' = [task EXCEPT !.cancelled = TRUE]
    <3>1. task'.pair = task.pair /\ task'.id = task.id /\ task'.place = task.place
          /\ task'.total = task.total /\ task'.written = task.written
          /\ task'.buffered = task.buffered /\ task'.cancelled
      BY <1>1, <2>2 DEF TaskType
    <3> QED
      BY <1>5, <3>1
  <2> QED
    BY <1>6, <2>1, <2>2 DEF TaskEnds

\* What a step adds to the history.
HistoryGrows ==
    /\ sent' = sent \/ \E r \in Record : sent' = Append(sent, r)
    /\ lines' = lines \/ \E line \in Seq(Nat) : lines' = Append(lines, line)
    /\ heard' = heard \/ heard' = heard \o Bytes

LEMMA EndedStays ==
    ASSUME SpokenInv, RecordsCounted, HistoryGrows
    PROVE  \A n \in Nat : Over(n) => EndedBy(n, sent', lines', heard')
<1> SUFFICES ASSUME NEW n \in Nat, Over(n)
             PROVE  EndedBy(n, sent', lines', heard')
  OBVIOUS
<1>1. sent \in Seq(Record) /\ lines \in Seq(Seq(Nat)) /\ heard \in Seq(Nat) /\ Bytes \in Seq(Nat)
  BY DEF SpokenInv, SayingTyped, HearingTyped, Bytes, ReadType, Channels
<1>2. sent' \in Seq(Record) /\ Len(sent) <= Len(sent') /\ \A k \in 1 .. Len(sent) : sent'[k] = sent[k]
  <2>1. ASSUME NEW r \in Record, sent' = Append(sent, r)
        PROVE  /\ sent' \in Seq(Record) /\ Len(sent) <= Len(sent')
               /\ \A k \in 1 .. Len(sent) : sent'[k] = sent[k]
    BY <1>1, <2>1
  <2>2. CASE sent' = sent
    BY <1>1, <2>2
  <2> QED
    BY <2>1, <2>2 DEF HistoryGrows
<1>3. Range(lines) \subseteq Range(lines')
  <2>1. CASE lines' = lines
    BY <2>1
  <2>2. ASSUME NEW line \in Seq(Nat), lines' = Append(lines, line)
        PROVE  Range(lines) \subseteq Range(lines')
    <3>1. \A i \in DOMAIN lines : i \in DOMAIN lines' /\ lines'[i] = lines[i]
      BY <1>1, <2>2
    <3> QED
      BY <3>1 DEF Range
  <2> QED
    BY <2>1, <2>2 DEF HistoryGrows
<1>4. \A k \in 1 .. Len(sent) :
         sent[k].event = "synthesis_complete" /\ sent[k].id = n /\ Count(n, heard) = sent[k].bytes =>
            Count(n, heard') = Count(n, heard)
  <2>1. CASE heard' = heard
    BY <2>1
  <2>2. CASE heard' = heard \o Bytes
    <3>1. Count(n, heard') = Count(n, heard) + Count(n, Bytes) /\ Count(n, heard) \in Nat
          /\ Count(n, Bytes) \in Nat
      BY <1>1, <2>2, CountConcat, CountTyped
    <3>2. \A k \in 1 .. Len(sent) :
             sent[k].event = "synthesis_complete" =>
                Count(sent[k].id, heard) + Count(sent[k].id, Bytes) <= sent[k].bytes
      BY DEF RecordsCounted, Taking, Both
    <3> QED
      BY <3>1, <3>2
  <2> QED
    BY <2>1, <2>2 DEF HistoryGrows
<1> QED
  BY <1>1, <1>2, <1>3, <1>4, EndedGrows DEF Over

LEMMA AroundKeepsCancels ==
    ASSUME SpokenInv, RecordsCounted, CancelInv, Held, Home' = Home, PipesGo, TaskEnds,
           UNCHANGED <<sent, talk, lines, heard>>
    PROVE  CancelInv'
<1>1. /\ Home \in Pairs /\ Home # 0 /\ task.pair \in {0, Home} /\ task \in TaskType
      /\ Queue' = Queue /\ (session[Home] = "ended" => session'[Home] = "ended")
  BY QueueTyped DEF SpokenInv, SayingTyped, PipesGo, PipeGoes, Queue
<1>2. \A n : EndedBy(n, sent', lines', heard') <=> Over(n)
  BY DEF Over
<1>3. EarlierEnded'
  BY <1>2 DEF CancelInv, EarlierEnded, Over
<1>4. CASE task'.id = task.id /\ task'.pair = task.pair
           /\ (task'.cancelled => task.cancelled \/ session'[task.pair] = "ended")
  <2>1. CancelsHit'
    BY <1>1, <1>2, <1>4 DEF CancelInv, CancelsHit, Over, Reached
  <2>2. CancelledByRight'
    <3> SUFFICES ASSUME task'.cancelled, session'[task.pair] # "ended"
                 PROVE  EndedBy(task.id, sent', lines', heard') \/ task.id \in Reached
      BY <1>4 DEF CancelledByRight, Over, Reached
    <3>1. task.cancelled
      BY <1>4
    <3>2. CASE task.pair = 0
      BY <3>2 DEF SpokenInv, TaskStands, EndedBy
    <3>3. CASE task.pair = Home
      BY <1>1, <1>2, <3>1, <3>3 DEF CancelInv, CancelledByRight
    <3> QED
      BY <1>1, <3>2, <3>3
  <2> QED
    BY <1>3, <2>1, <2>2 DEF CancelInv
<1>5. CASE task' = NoTask
  <2>1. task'.id = 0 /\ ~task'.cancelled
    BY <1>5 DEF NoTask
  <2> QED
    BY <1>3, <2>1 DEF CancelInv, CancelsHit, CancelledByRight, Over, EndedBy
<1> QED
  <2>1. CASE task' = task
    BY <1>4, <2>1
  <2>2. CASE task.pair # 0 /\ session'[task.pair] = "ended"
             /\ task' = [task EXCEPT !.cancelled = TRUE]
    <3>1. task'.pair = task.pair /\ task'.id = task.id
      BY <1>1, <2>2 DEF TaskType
    <3> QED
      BY <1>4, <2>2, <3>1
  <2> QED
    BY <1>5, <2>1, <2>2 DEF TaskEnds

\* A step around the conversation leaves what was said as it is.
LEMMA AroundKeepsConversation ==
    ASSUME SpokenInv, ConversationInv, Held, Home' = Home, PipesGo, TaskEnds,
           UNCHANGED <<sent, talk, lines, heard>>, Bytes' = Bytes
    PROVE  ConversationInv'
<1>1. RequestsInv /\ TotalsInv /\ CancelInv
  BY DEF ConversationInv
<1>2. Home \in Pairs /\ talk.id \in Nat /\ task \in TaskType
  BY QueueTyped DEF SpokenInv, SayingTyped
<1>3. Queue' = Queue
  BY <1>2 DEF PipesGo, PipeGoes, Queue
<1>4. task'.id \in {0, task.id}
  BY <1>2, EndingTask
<1>5. \A n \in Nat : Uses(n, task'.id, sent', heard', Bytes') => Uses(n, task.id, sent, heard, Bytes)
  BY <1>4 DEF Uses
<1>6. RequestsInv'
  BY <1>1, <1>2, <1>3, <1>5, RequestsStay DEF Reached
<1>7. TotalsInv' /\ CancelInv'
  BY <1>1, AroundKeepsTotals, AroundKeepsCancels DEF TotalsInv
<1> QED
  BY <1>6, <1>7 DEF ConversationInv

\* Audio that is read is of the task, and what was read is heard.
LEMMA ReadsKeepUses ==
    ASSUME SpokenInv, AudioIsOfTask, AroundReads, ReadsOn \/ TakesAudio \/ HearsAudio
    PROVE  \A n \in Nat : Uses(n, task'.id, sent', heard', Bytes') =>
                          Uses(n, task.id, sent, heard, Bytes)
<1>1. heard \in Seq(Nat) /\ Bytes \in Seq(Nat) /\ Sound \in Seq(Nat)
      /\ task' = task /\ sent' = sent
  BY QueueTyped DEF SpokenInv, HearingTyped, Bytes, ReadType, Channels, AroundReads
<1>2. CASE ReadsOn
  BY <1>1, <1>2 DEF ReadsOn, Uses
<1>3. CASE HearsAudio
  <2>1. heard' = heard \o Bytes /\ Len(Bytes') = 0
    BY <1>3 DEF HearsAudio
  <2>2. \A i \in 1 .. Len(heard') : \/ \E j \in 1 .. Len(heard) : heard'[i] = heard[j]
                                    \/ \E j \in 1 .. Len(Bytes) : heard'[i] = Bytes[j]
    <3> SUFFICES ASSUME NEW i \in 1 .. Len(heard')
                 PROVE  \/ \E j \in 1 .. Len(heard) : heard'[i] = heard[j]
                        \/ \E j \in 1 .. Len(Bytes) : heard'[i] = Bytes[j]
      OBVIOUS
    <3>1. CASE i <= Len(heard)
      BY <1>1, <2>1, <3>1
    <3>2. CASE i > Len(heard)
      <4>1. i - Len(heard) \in 1 .. Len(Bytes) /\ heard'[i] = Bytes[i - Len(heard)]
        BY <1>1, <2>1, <3>2
      <4> QED
        BY <4>1
    <3>3. i \in Nat /\ Len(heard) \in Nat
      BY <1>1, <2>1
    <3> QED
      BY <3>1, <3>2, <3>3
  <2> QED
    <3> TAKE n \in Nat
    <3>1. \A i \in 1 .. Len(Bytes') : FALSE
      BY <2>1
    <3>2. (\E i \in 1 .. Len(heard') : heard'[i] = n) =>
             \/ \E i \in 1 .. Len(heard) : heard[i] = n
             \/ \E i \in 1 .. Len(Bytes) : Bytes[i] = n
      BY <2>2
    <3> QED
      BY <1>1, <3>1, <3>2 DEF Uses
<1>4. CASE TakesAudio
  <2>1. PICK n \in 1 .. Len(Sound) : Bytes' = SubSeq(Sound, 1, n) /\ heard' = heard
    BY <1>4 DEF TakesAudio, Sound
  <2>2. \A i \in 1 .. Len(Bytes') : Bytes'[i] = Sound[i] /\ i \in 1 .. Len(Sound)
    BY <1>1, <2>1, CutTyped
  <2>3. \A i \in 1 .. Len(Sound) : Sound[i] = task.id
    BY <1>1 DEF AudioIsOfTask
  <2> QED
    BY <1>1, <2>1, <2>2, <2>3 DEF Uses
<1> QED
  BY <1>2, <1>3, <1>4

\* The halves that are heard are those that were read into the buffer.
LEMMA HearBoth ==
    ASSUME NEW h \in Seq(Nat), NEW b \in Seq(Nat), NEW c \in Seq(Nat), Len(c) = 0
    PROVE  \A n \in Nat : Both(n, h \o b, c) = Both(n, h, b)
<1> TAKE n \in Nat
<1>1. Count(n, h \o b) = Count(n, h) + Count(n, b)
  BY CountConcat
<1>2. Count(n, c) = 0
  <2>1. \A i \in 1 .. Len(c) : c[i] # n
    OBVIOUS
  <2> QED
    BY <2>1, CountNone
<1>3. Count(n, h) \in Nat /\ Count(n, b) \in Nat
  BY CountTyped
<1> QED
  BY <1>1, <1>2, <1>3 DEF Both

\* The halves that are read are those of one request.
LEMMA TakeBoth ==
    ASSUME NEW h \in Seq(Nat), NEW b \in Seq(Nat), NEW c \in Seq(Nat), Len(c) = 0,
           NEW x \in Nat, \A i \in 1 .. Len(b) : b[i] = x
    PROVE  Both(x, h, b) = Both(x, h, c) + Len(b)
<1>1. \A i \in 1 .. Len(c) : c[i] # x
  OBVIOUS
<1>2. Count(x, c) = 0
  BY <1>1, CountNone
<1>3. Count(x, b) = Len(b) /\ Count(x, h) \in Nat
  BY CountAll, CountTyped
<1> QED
  BY <1>2, <1>3 DEF Both

LEMMA OtherBoth ==
    ASSUME NEW h \in Seq(Nat), NEW b \in Seq(Nat), NEW c \in Seq(Nat), Len(c) = 0,
           NEW x \in Nat, \A i \in 1 .. Len(b) : b[i] # x
    PROVE  Both(x, h, b) = Both(x, h, c)
<1>1. \A i \in 1 .. Len(c) : c[i] # x
  OBVIOUS
<1>2. Count(x, c) = 0
  BY <1>1, CountNone
<1>3. Count(x, b) = 0
  BY CountNone
<1> QED
  BY <1>2, <1>3 DEF Both

LEMMA BothTyped ==
    ASSUME NEW h \in Seq(Nat), NEW b \in Seq(Nat)
    PROVE  \A n \in Nat : Both(n, h, b) \in Nat
<1> TAKE n \in Nat
<1>1. Count(n, h) \in Nat /\ Count(n, b) \in Nat
  BY CountTyped
<1> QED
  BY <1>1 DEF Both

\* What was read of a request, or is left of the task's buffer, is as much as before.
LEMMA ReadsCount ==
    ASSUME SpokenInv, AudioIsOfTask, AroundReads, ReadsOn \/ TakesAudio \/ HearsAudio
    PROVE  /\ Queue' = Queue /\ Sound' \in Seq(Nat) /\ Len(Sound') <= Len(Sound)
           /\ \A i \in 1 .. Len(Sound') : \E j \in 1 .. Len(Sound) : Sound'[i] = Sound[j]
           /\ \A n \in Nat : n # task.id => Both(n, heard', Bytes') = Taking(n)
           /\ Both(task.id, heard', Bytes') + Len(Sound') = Taking(task.id) + Len(Sound)
           /\ \A n \in Nat : Taking(n) \in Nat /\ Both(n, heard', Bytes') \in Nat
<1>1. heard \in Seq(Nat) /\ Bytes \in Seq(Nat) /\ Sound \in Seq(Nat) /\ Home \in Pairs
      /\ task.id \in Nat /\ Len(Sound) \in Nat
  <2>1. Sound \in Seq(Nat) /\ Home \in Pairs /\ task.id \in Nat /\ Len(Sound) \in Nat
    BY QueueTyped DEF AroundReads
  <2>2. heard \in Seq(Nat) /\ Bytes \in Seq(Nat)
    BY DEF SpokenInv, HearingTyped, Bytes, ReadType, Channels
  <2> QED
    BY <2>1, <2>2
<1>2. Home' = Home /\ task' = task
  BY DEF AroundReads, Home
<1>3. heard' \in Seq(Nat) /\ Bytes' \in Seq(Nat)
  BY DEF AroundReads, HearingTyped, Bytes, ReadType, Channels
<1>4. \A n \in Nat : Taking(n) \in Nat /\ Both(n, heard', Bytes') \in Nat
  BY <1>1, <1>3, BothTyped DEF Taking
<1>5. CASE ReadsOn
  <2>1. Queue' = Queue /\ Sound' = Sound /\ Bytes' = Bytes /\ heard' = heard
    BY <1>1, <1>2, <1>5 DEF ReadsOn, DataBut, Queue, Sound
  <2>2. \A n \in Nat : Both(n, heard', Bytes') = Taking(n)
    BY <2>1 DEF Taking
  <2>3. /\ Sound' \in Seq(Nat) /\ Len(Sound') <= Len(Sound)
        /\ \A i \in 1 .. Len(Sound') : \E j \in 1 .. Len(Sound) : Sound'[i] = Sound[j]
    BY <1>1, <2>1
  <2>4. Both(task.id, heard', Bytes') + Len(Sound') = Taking(task.id) + Len(Sound)
    BY <1>1, <2>1, <2>2
  <2> QED
    BY <1>4, <2>1, <2>2, <2>3, <2>4
<1>6. CASE HearsAudio
  <2>1. Queue' = Queue /\ Sound' = Sound /\ Len(Bytes') = 0 /\ heard' = heard \o Bytes
    BY <1>1, <1>2, <1>6 DEF HearsAudio, DataBut, Queue, Sound
  <2>2. \A n \in Nat : Both(n, heard \o Bytes, Bytes') = Both(n, heard, Bytes)
    <3>1. heard \in Seq(Nat) /\ Bytes \in Seq(Nat) /\ Bytes' \in Seq(Nat) /\ Len(Bytes') = 0
      BY <1>1, <1>3, <2>1
    <3>2. ASSUME NEW n \in Nat
          PROVE  Both(n, heard \o Bytes, Bytes') = Both(n, heard, Bytes)
      <4> DEFINE h == heard
                 b == Bytes
                 c == Bytes'
      <4>1. h \in Seq(Nat) /\ b \in Seq(Nat) /\ c \in Seq(Nat) /\ Len(c) = 0
        BY <3>1
      <4> HIDE DEF h, b, c
      <4>2. Both(n, h \o b, c) = Both(n, h, b)
        BY <4>1, HearBoth
      <4> QED
        BY <4>2 DEF h, b, c
    <3> QED
      BY <3>2
  <2>3. \A n \in Nat : Both(n, heard', Bytes') = Taking(n)
    BY <2>1, <2>2 DEF Taking
  <2>4. /\ Sound' \in Seq(Nat) /\ Len(Sound') <= Len(Sound)
        /\ \A i \in 1 .. Len(Sound') : \E j \in 1 .. Len(Sound) : Sound'[i] = Sound[j]
    BY <1>1, <2>1
  <2>5. Both(task.id, heard', Bytes') + Len(Sound') = Taking(task.id) + Len(Sound)
    BY <1>1, <2>1, <2>3
  <2> QED
    BY <1>4, <2>1, <2>3, <2>4, <2>5
<1>7. CASE TakesAudio
  <2>1. PICK n \in 1 .. Len(Sound) :
           /\ Len(Bytes) = 0 /\ Bytes' = SubSeq(Sound, 1, n) /\ heard' = heard
           /\ Sound' = SubSeq(Sound, n + 1, Len(Sound)) /\ Queue' = Queue
    BY <1>1, <1>2, <1>7 DEF TakesAudio, DataBut, Queue, Sound
  <2>2. /\ Len(Bytes') = n /\ \A i \in 1 .. n : Bytes'[i] = Sound[i]
        /\ Sound' \in Seq(Nat) /\ Len(Sound') = Len(Sound) - n
        /\ \A i \in 1 .. Len(Sound) - n : Sound'[i] = Sound[n + i]
    BY <1>1, <2>1, CutTyped
  <2>3. n \in Nat /\ n >= 1 /\ n <= Len(Sound)
    BY <1>1
  <2>4. \A i \in 1 .. Len(Sound) : Sound[i] = task.id
    <3>1. Len(Sound) # 0
      BY <1>1, <2>3
    <3>2. Sound # <<>>
      BY <3>1
    <3> QED
      BY <3>2 DEF AudioIsOfTask
  <2>5. \A i \in 1 .. Len(Bytes') : Bytes'[i] = task.id
    <3>1. \A i \in 1 .. n : i \in 1 .. Len(Sound)
      BY <2>3, <1>1
    <3>2. ASSUME NEW i \in 1 .. n
          PROVE  Bytes'[i] = task.id
      <4>1. Bytes'[i] = Sound[i]
        BY <2>2
      <4>2. i \in 1 .. Len(Sound)
        BY <3>1
      <4>3. Sound[i] = task.id
        BY <2>4, <4>2
      <4> QED
        BY <4>1, <4>3
    <3>3. Len(Bytes') = n
      BY <2>2
    <3> QED
      BY <3>2, <3>3
  <2>6. /\ Both(task.id, heard', Bytes') = Taking(task.id) + n
        /\ \A m \in Nat : m # task.id => Both(m, heard', Bytes') = Taking(m)
    <3>1. /\ Both(task.id, heard, Bytes') = Both(task.id, heard, Bytes) + Len(Bytes')
          /\ \A m \in Nat \ {task.id} : Both(m, heard, Bytes') = Both(m, heard, Bytes)
      <4> DEFINE h == heard
                 b == Bytes'
                 c == Bytes
                 x == task.id
      <4>1. h \in Seq(Nat) /\ b \in Seq(Nat) /\ c \in Seq(Nat) /\ x \in Nat /\ Len(c) = 0
        BY <1>1, <1>3, <2>1
      <4>2. \A i \in 1 .. Len(b) : b[i] = x
        BY <2>5
      <4> HIDE DEF h, b, c, x
      <4>3. Both(x, h, b) = Both(x, h, c) + Len(b)
        BY <4>1, <4>2, TakeBoth
      <4>4. ASSUME NEW m \in Nat, m # x
            PROVE  Both(m, h, b) = Both(m, h, c)
        <5>1. \A i \in 1 .. Len(b) : b[i] # m
          BY <4>2, <4>4
        <5> QED
          BY <4>1, <5>1, OtherBoth, ZenonT(40)
      <4> QED
        BY <4>3, <4>4 DEF h, b, c, x
    <3> QED
      BY <2>1, <2>2, <3>1 DEF Taking
  <2>7. Both(task.id, heard', Bytes') + Len(Sound') = Taking(task.id) + Len(Sound)
    <3>1. Both(task.id, heard', Bytes') \in Nat /\ Taking(task.id) \in Nat
      BY <1>1, <1>4
    <3>2. Len(Sound') = Len(Sound) - n /\ Both(task.id, heard', Bytes') = Taking(task.id) + n
      BY <2>2, <2>6
    <3> QED
      BY <1>1, <2>3, <3>1, <3>2
  <2>8. \A i \in 1 .. Len(Sound') : n + i \in 1 .. Len(Sound) /\ Sound'[i] = Sound[n + i]
    <3>1. ASSUME NEW i \in 1 .. Len(Sound) - n
          PROVE  n + i \in 1 .. Len(Sound)
      BY <1>1, <2>3
    <3>2. 1 .. Len(Sound') = 1 .. Len(Sound) - n
      BY <2>2
    <3> QED
      BY <2>2, <3>1, <3>2
  <2>9. Len(Sound') <= Len(Sound)
    BY <1>1, <2>2, <2>3
  <2> QED
    BY <1>4, <2>1, <2>2, <2>6, <2>7, <2>8, <2>9
<1> QED
  BY <1>5, <1>6, <1>7

LEMMA ReadsKeepTotals ==
    ASSUME SpokenInv, TotalsInv, AroundReads, ReadsOn \/ TakesAudio \/ HearsAudio
    PROVE  TotalsInv'
<1> DEFINE Got2(n) == Both(n, heard', Bytes')
<1>1. /\ Home \in Pairs /\ Home' = Home /\ task.id \in Nat /\ task' = task /\ sent' = sent
      /\ (Connected(Home)' <=> Connected(Home)) /\ task \in TaskType /\ TaskStands
      /\ sent \in Seq(Record) /\ Sound \in Seq(Nat) /\ Len(Sound) \in Nat
  BY QueueTyped, EndsStay DEF AroundReads, Home, SpokenInv, SayingTyped
<1>2. AudioIsOfTask
  BY DEF TotalsInv
<1>3. /\ Sound' \in Seq(Nat) /\ Len(Sound') <= Len(Sound)
      /\ \A i \in 1 .. Len(Sound') : \E j \in 1 .. Len(Sound) : Sound'[i] = Sound[j]
      /\ \A n \in Nat : n # task.id => Got2(n) = Taking(n)
      /\ Got2(task.id) + Len(Sound') = Taking(task.id) + Len(Sound)
      /\ \A n \in Nat : Taking(n) \in Nat /\ Got2(n) \in Nat
  BY <1>2, ReadsCount
<1>4. Len(Sound') \in Nat /\ task.written \in Nat /\ task.total \in Nat /\ task.buffered \in Nat
  BY <1>1, <1>3 DEF TaskType
<1>5. ASSUME NEW i \in 1 .. Len(sent)
      PROVE  sent[i].id \in Nat /\ sent[i].bytes \in Nat
  <2>1. sent[i] \in Record
    BY <1>1
  <2> QED
    BY <2>1 DEF Record
<1>6. Sound' # <<>> => Sound # <<>>
  BY <1>1, <1>3
<1>7. AudioIsOfTask'
  <2> SUFFICES ASSUME Sound' # <<>>
               PROVE  /\ task.pair = Home /\ Connected(Home) /\ task.place \in {"write", "flushing"}
                      /\ \A i \in 1 .. Len(Sound') : Sound'[i] = task.id
    BY <1>1 DEF AudioIsOfTask
  <2> QED
    BY <1>2, <1>3, <1>6 DEF AudioIsOfTask
<1>8. TaskCounted'
  BY <1>1 DEF TotalsInv, TaskCounted
<1> HIDE DEF Got2
<1>9. CASE Len(Sound) = 0
  <2>1. Len(Sound') = 0
    BY <1>3, <1>4, <1>9
  <2>2. Got2(task.id) = Taking(task.id)
    <3>1. Got2(task.id) \in Nat /\ Taking(task.id) \in Nat
      BY <1>1, <1>3
    <3>2. Got2(task.id) + 0 = Taking(task.id) + 0
      BY <1>3, <1>9, <2>1
    <3> QED
      BY <3>1, <3>2
  <2>3. \A n \in Nat : Got2(n) = Taking(n)
    BY <1>3, <2>2
  <2>4. SoundCounted'
    BY <1>1, <1>9, <2>1, <2>2 DEF TotalsInv, SoundCounted, Taking, Got2
  <2>5. RecordsOfTask'
    BY <1>1, <2>2 DEF TotalsInv, RecordsOfTask, Taking, Got2
  <2>6. RecordsCounted'
    BY <1>1, <1>5, <2>3 DEF TotalsInv, RecordsCounted, Taking, Got2
  <2> QED
    BY <1>7, <1>8, <2>4, <2>5, <2>6 DEF TotalsInv
<1>10. CASE Len(Sound) # 0
  <2>1. task.pair = Home /\ Connected(Home) /\ task.place \in Writing
    <3>1. Sound # <<>>
      BY <1>10
    <3> QED
      BY <1>2, <3>1 DEF AudioIsOfTask, Writing
  <2>2. Taking(task.id) + Len(Sound) = task.written + 2
        /\ task.total = task.written + 2 * task.buffered
    BY <2>1 DEF TotalsInv, SoundCounted, TaskCounted
  <2>3. Got2(task.id) + Len(Sound') = task.written + 2
    BY <1>3, <2>2
  <2>4. SoundCounted'
    BY <1>1, <2>1, <2>3 DEF SoundCounted, Written, Writing, Taking, Got2
  <2>5. RecordsOfTask'
    BY <1>1, <2>1 DEF TotalsInv, RecordsOfTask, Writing
  <2>6. RecordsCounted'
    <3> SUFFICES ASSUME NEW i \in 1 .. Len(sent)
                 PROVE  /\ sent[i].event = "synthesis_complete" =>
                              sent[i].id >= 1 /\ Got2(sent[i].id) <= sent[i].bytes
                        /\ sent[i].event = "synthesis_cancelled" =>
                              sent[i].id >= 1 /\ Got2(sent[i].id) - sent[i].bytes \in {0, 1}
      BY <1>1 DEF RecordsCounted, Taking, Got2
    <3>1. /\ sent[i].event = "synthesis_complete" =>
                sent[i].id >= 1 /\ Taking(sent[i].id) <= sent[i].bytes
          /\ sent[i].event = "synthesis_cancelled" =>
                sent[i].id >= 1 /\ Taking(sent[i].id) - sent[i].bytes \in {0, 1}
      BY DEF TotalsInv, RecordsCounted
    <3>2. CASE sent[i].id # task.id
      <4>1. Got2(sent[i].id) = Taking(sent[i].id)
        BY <1>3, <1>5, <3>2
      <4> QED
        BY <3>1, <4>1
    <3>3. CASE sent[i].id = task.id
      <4>1. sent[i].event # "synthesis_cancelled"
        BY <2>1, <3>3 DEF TotalsInv, RecordsOfTask, Writing
      <4>2. ASSUME sent[i].event = "synthesis_complete"
            PROVE  sent[i].id >= 1 /\ Got2(sent[i].id) <= sent[i].bytes
        <5>1. task.place = "flushing" /\ sent[i].bytes = task.total
          BY <2>1, <3>3, <4>2 DEF TotalsInv, RecordsOfTask, Writing
        <5>2. task.buffered >= 1
          BY <1>1, <5>1 DEF TaskStands
        <5>3. Got2(task.id) \in Nat
          BY <1>1, <1>3
        <5>4. Got2(task.id) <= task.total
          BY <1>4, <2>2, <2>3, <5>2, <5>3
        <5> QED
          BY <3>1, <3>3, <4>2, <5>1, <5>4
      <4> QED
        BY <4>1, <4>2
    <3> QED
      BY <3>2, <3>3
  <2> QED
    BY <1>7, <1>8, <2>4, <2>5, <2>6 DEF TotalsInv
<1> QED
  BY <1>9, <1>10

\* Cancels stay right when requests only come to more of an end.
LEMMA CancelsStay ==
    ASSUME CancelInv, Queue' = Queue, UNCHANGED <<talk, session>>, task.id \in Nat, talk.id \in Nat,
           task'.id = task.id, task'.pair = task.pair, task'.cancelled = task.cancelled,
           \A n \in Nat : Over(n) => EndedBy(n, sent', lines', heard')
    PROVE  CancelInv'
<1>1. EarlierEnded'
  BY DEF CancelInv, EarlierEnded, Over
<1>2. CancelsHit'
  BY DEF CancelInv, CancelsHit, Over, Reached
<1>3. CancelledByRight'
  BY DEF CancelInv, CancelledByRight, Over, Reached
<1> QED
  BY <1>1, <1>2, <1>3 DEF CancelInv

LEMMA ReadsKeepConversation ==
    ASSUME SpokenInv, ConversationInv, Reads
    PROVE  ConversationInv'
<1>1. AroundReads /\ (ReadsOn \/ TakesAudio \/ HearsAudio)
  BY ReadsMove
<1>2. Held /\ UNCHANGED <<session, task, sent, talk>>
  BY <1>1 DEF AroundReads
<1>3. RequestsInv /\ TotalsInv /\ CancelInv /\ AudioIsOfTask /\ RecordsCounted
  BY <1>2 DEF ConversationInv, TotalsInv
<1>4. task.id \in Nat /\ talk.id \in Nat
  BY <1>2, QueueTyped
<1>5. Queue' = Queue
  BY <1>1, <1>3, ReadsCount
<1>6. \A n \in Nat : Uses(n, task'.id, sent', heard', Bytes') => Uses(n, task.id, sent, heard, Bytes)
  BY <1>1, <1>3, ReadsKeepUses
<1>7. RequestsInv'
  <2>1. talk'.id = talk.id /\ Reached \subseteq Reached'
    BY <1>2 DEF Reached
  <2> QED
    BY <1>3, <1>4, <1>5, <1>6, <2>1, RequestsStay
<1>8. HistoryGrows
  BY <1>1, <1>2 DEF ReadsOn, TakesAudio, HearsAudio, HistoryGrows
<1>9. CancelInv'
  <2>1. \A n \in Nat : Over(n) => EndedBy(n, sent', lines', heard')
    BY <1>3, <1>8, EndedStays
  <2>2. task'.id = task.id /\ task'.pair = task.pair /\ task'.cancelled = task.cancelled
    BY <1>2
  <2> QED
    BY <1>2, <1>3, <1>4, <1>5, <2>1, <2>2, CancelsStay
<1>10. TotalsInv'
  BY <1>1, <1>3, ReadsKeepTotals
<1> QED
  BY <1>7, <1>9, <1>10 DEF ConversationInv
-----------------------------------------------------------------------------
(* The talker speaks and cancels. *)

LEMMA TalkIs ==
    ASSUME SpokenInv, AsksInfo \/ GetsInfo \/ SendsSpeak \/ BeginsCancel \/ SendsCancel
    PROVE  /\ Home' = Home /\ Sound' = Sound /\ Bytes' = Bytes
           /\ Connected(Home)' = Connected(Home) /\ Reached \subseteq Reached'
           /\ \/ /\ Queue' = Queue \/ \E m \in Command : /\ m.kind = "info"
                                                         /\ Queue' = Append(Queue, m)
                 /\ talk'.id = talk.id
              \/ /\ Over(talk.id) /\ talk'.id = talk.id + 1
                 /\ \E m \in Command : /\ m.kind = "speak" /\ m.id = talk.id + 1
                                       /\ Queue' = Append(Queue, m)
              \/ /\ talk'.id = talk.id /\ talk.id \in Reached'
                 /\ \E m \in Command : /\ m.kind = "cancel"
                                       /\ Queue' = Append(Queue, m)
<1>1. Talking /\ Held /\ UNCHANGED <<session, task, sent, client, ioVars, plan>>
      /\ SameEnds(pairs, pairs')
  BY TalkMoves
<1>2. Home \in Pairs /\ talk.id \in Nat
  BY <1>1, QueueTyped
<1>3. /\ TypedPairs(pairs) /\ talk \in TalkFields /\ sent \in Seq(Record)
      /\ talk.pending \subseteq talk.cancelled
  BY TalkIsTyped DEF SpokenInv, CrossInv, LifetimeInv, SayingTyped
<1>4. Home' = Home /\ Bytes' = Bytes
  BY <1>1 DEF Home, Bytes, ioVars
<1>5. Connected(Home)' = Connected(Home)
  BY <1>1, <1>2, <1>4, EndsStay DEF Connected
<1>6. ASSUME NEW kind \in {"info", "speak", "cancel"}, NEW id \in Nat, NEW shape \in Shapes,
             kind = "speak" => id >= 1, SendCommand(Talker, kind, id, shape)
      PROVE  /\ Sound' = Sound
             /\ \E m \in Command : /\ m.kind = kind /\ m.id = id
                                   /\ Queue' = Append(Queue, m)
  <2> DEFINE m == [kind |-> kind, id |-> id, shape |-> shape]
  <2>1. m \in Command /\ m.kind = kind /\ m.id = id
    BY <1>6, CommandTyped
  <2>2. DataBut(Home, Append(Queue, m), pairs[Home].replies, pairs[Home].pcm)
    BY <1>2, <1>3, <1>6, SendingMoves DEF Queue
  <2> HIDE DEF m
  <2>3. Queue' = Append(Queue, m) /\ Sound' = Sound
    BY <1>2, <1>4, <2>2 DEF DataBut, Queue, Sound
  <2> QED
    BY <2>1, <2>3
<1>7. "none" \in Shapes
  BY DEF Shapes
<1>8. CASE AsksInfo
  <2>1. SendCommand(Talker, "info", 0, "none") /\ talk' = [talk EXCEPT !.asked = TRUE]
    BY <1>8 DEF AsksInfo
  <2>2. talk'.id = talk.id /\ Reached' = Reached
    BY <1>3, <2>1 DEF TalkFields, Reached
  <2> QED
    BY <1>4, <1>5, <1>6, <1>7, <2>1, <2>2
<1>9. CASE GetsInfo \/ BeginsCancel
  <2>1. /\ pairs' = pairs
        /\ \/ talk' = [talk EXCEPT !.greeted = TRUE]
           \/ talk' = [talk EXCEPT !.cancelled = @ \cup {talk.id}, !.pending = @ \cup {talk.id}]
    BY <1>9 DEF GetsInfo, BeginsCancel
  <2>2. talk'.id = talk.id /\ Reached \subseteq Reached'
    BY <1>3, <2>1 DEF TalkFields, Reached
  <2>3. Queue' = Queue /\ Sound' = Sound
    BY <1>4, <2>1 DEF Queue, Sound
  <2> QED
    BY <1>4, <1>5, <2>2, <2>3
<1>10. CASE SendsSpeak
  <2>1. PICK shape \in plan.requests[talk.id + 1] : SendCommand(Talker, "speak", talk.id + 1, shape)
    BY <1>10 DEF SendsSpeak
  <2>2. /\ Ended(talk.id) /\ talk.id < Len(plan.requests)
        /\ talk' = [talk EXCEPT !.id = talk.id + 1]
    BY <1>10 DEF SendsSpeak
  <2>3. shape \in Shapes
    <3>1. plan.requests \in Seq(SUBSET Shapes)
      BY PlansAssumption DEF SpokenInv, SayingTyped
    <3>2. talk.id + 1 \in 1 .. Len(plan.requests)
      BY <1>2, <2>2, <3>1
    <3>3. plan.requests[talk.id + 1] \in SUBSET Shapes
      BY <3>1, <3>2
    <3> QED
      BY <3>3
  <2>4. Over(talk.id)
    BY <1>3, <2>2, EndedIs
  <2>5. talk'.id = talk.id + 1 /\ Reached' = Reached
    BY <1>3, <2>2 DEF TalkFields, Reached
  <2>6. talk.id + 1 \in Nat /\ talk.id + 1 >= 1
    BY <1>2
  <2> QED
    BY <1>4, <1>5, <1>6, <2>1, <2>3, <2>4, <2>5, <2>6
<1>11. CASE SendsCancel
  <2>1. PICK id \in talk.pending :
           /\ SendCommand(Talker, "cancel", id, "none")
           /\ talk' = [talk EXCEPT !.pending = @ \ {id},
                                   !.late = IF id = talk.id THEN @ ELSE @ \cup {talk.id}]
    BY <1>11 DEF SendsCancel
  <2>2. id \in Nat
    BY <1>3 DEF TalkFields
  <2>3. /\ talk'.id = talk.id /\ talk'.cancelled = talk.cancelled
        /\ talk'.late = IF id = talk.id THEN talk.late ELSE talk.late \cup {talk.id}
    BY <1>3, <2>1 DEF TalkFields
  <2>4. Reached \subseteq Reached' /\ talk.id \in Reached'
    BY <1>3, <2>3 DEF Reached
  <2> QED
    BY <1>2, <1>4, <1>5, <1>6, <1>7, <2>1, <2>2, <2>3, <2>4
<1> QED
  BY <1>8, <1>9, <1>10, <1>11

LEMMA QueueGrows ==
    ASSUME Queue \in Seq(Command), NEW m \in Command, Queue' = Append(Queue, m)
    PROVE  /\ Len(Queue) \in Nat /\ Len(Queue') = Len(Queue) + 1
           /\ \A i \in 1 .. Len(Queue) : Queue'[i] = Queue[i]
           /\ Queue'[Len(Queue) + 1] = m
           /\ \A i \in 1 .. Len(Queue') : i \in 1 .. Len(Queue) \/ i = Len(Queue) + 1
OBVIOUS

\* The audio and the records are as they were.
LEMMA TotalsStay ==
    ASSUME TotalsInv, UNCHANGED <<task, sent, heard>>, Bytes' = Bytes, Sound' = Sound,
           Home' = Home, Connected(Home)' = Connected(Home)
    PROVE  TotalsInv'
<1>1. AudioIsOfTask' /\ SoundCounted'
  BY DEF TotalsInv, AudioIsOfTask, SoundCounted, Taking
<1>2. TaskCounted' /\ RecordsCounted' /\ RecordsOfTask'
  BY DEF TotalsInv, TaskCounted, RecordsCounted, RecordsOfTask, Taking
<1> QED
  BY <1>1, <1>2 DEF TotalsInv

LEMMA TalkKeepsConversation ==
    ASSUME SpokenInv, ConversationInv, AsksInfo \/ GetsInfo \/ SendsSpeak \/ BeginsCancel \/ SendsCancel
    PROVE  ConversationInv'
<1>1. Talking /\ Held /\ UNCHANGED <<session, task, sent, client, ioVars, plan>>
  BY TalkMoves
<1>2. RequestsInv /\ TotalsInv /\ CancelInv
  BY <1>1 DEF ConversationInv
<1>3. /\ Home' = Home /\ Sound' = Sound /\ Bytes' = Bytes
      /\ Connected(Home)' = Connected(Home) /\ Reached \subseteq Reached'
  BY TalkIs
<1>4. UNCHANGED <<lines, heard>>
  BY <1>1 DEF ioVars
<1>5. TotalsInv'
  BY <1>1, <1>2, <1>3, <1>4, TotalsStay
<1>6. /\ Queue \in Seq(Command) /\ talk.id \in Nat /\ task.id \in Nat
      /\ \A i \in 1 .. Len(Queue) : Queue[i].kind = "speak" => Queue[i].id >= 1
  BY <1>1, QueueTyped
<1>7. \A n : EndedBy(n, sent', lines', heard') <=> Over(n)
  BY <1>1, <1>4 DEF Over
<1>8. \A n : Uses(n, task'.id, sent', heard', Bytes') <=> Uses(n, task.id, sent, heard, Bytes)
  BY <1>1, <1>3, <1>4
<1>9. CASE Queue' = Queue /\ talk'.id = talk.id
  <2>1. RequestsInv'
    BY <1>2, <1>3, <1>6, <1>8, <1>9, RequestsStay
  <2>2. EarlierEnded' /\ CancelsHit' /\ CancelledByRight'
    BY <1>1, <1>2, <1>3, <1>7, <1>9 DEF CancelInv, EarlierEnded, CancelsHit, CancelledByRight, Over
  <2> QED
    BY <1>5, <2>1, <2>2 DEF ConversationInv, CancelInv
<1>10. ASSUME NEW m \in Command, m.kind = "info", Queue' = Append(Queue, m),
              talk'.id = talk.id
       PROVE  ConversationInv'
  <2>1. /\ Len(Queue) \in Nat /\ Len(Queue') = Len(Queue) + 1
        /\ \A i \in 1 .. Len(Queue) : Queue'[i] = Queue[i]
        /\ Queue'[Len(Queue) + 1] = m
        /\ \A i \in 1 .. Len(Queue') : i \in 1 .. Len(Queue) \/ i = Len(Queue) + 1
    BY <1>6, <1>10, QueueGrows
  <2>2. OneSpeak' /\ CancelsFollow' /\ UsedIds' /\ Fresh'
    BY <1>2, <1>3, <1>8, <1>10, <2>1 DEF RequestsInv, OneSpeak, CancelsFollow, UsedIds, Fresh
  <2>3. EarlierEnded' /\ CancelsHit' /\ CancelledByRight'
    BY <1>1, <1>2, <1>3, <1>7, <1>10, <2>1 DEF CancelInv, EarlierEnded, CancelsHit, CancelledByRight, Over
  <2> QED
    BY <1>5, <2>2, <2>3 DEF ConversationInv, CancelInv, RequestsInv
<1>11. ASSUME NEW m \in Command, Over(talk.id), m.kind = "speak", m.id = talk.id + 1,
              Queue' = Append(Queue, m), talk'.id = talk.id + 1
       PROVE  ConversationInv'
  <2>1. /\ Len(Queue) \in Nat /\ Len(Queue') = Len(Queue) + 1
        /\ \A i \in 1 .. Len(Queue) : Queue'[i] = Queue[i]
        /\ Queue'[Len(Queue) + 1] = m
        /\ \A i \in 1 .. Len(Queue') : i \in 1 .. Len(Queue) \/ i = Len(Queue) + 1
    BY <1>6, <1>11, QueueGrows
  <2>2. \A i \in 1 .. Len(Queue) : Queue[i].kind # "speak"
    <3> SUFFICES ASSUME NEW i \in 1 .. Len(Queue), Queue[i].kind = "speak"
                 PROVE  FALSE
      OBVIOUS
    <3>1. talk.id >= 1 /\ ~Uses(talk.id, task.id, sent, heard, Bytes)
      BY <1>2, <1>6 DEF RequestsInv, OneSpeak, Fresh
    <3>2. \E k \in 1 .. Len(sent) : sent[k].id = talk.id
      BY <1>11, <3>1 DEF Over, EndedBy
    <3> QED
      BY <3>1, <3>2 DEF Uses
  <2>3. OneSpeak' /\ CancelsFollow'
    BY <1>2, <1>3, <1>11, <2>1, <2>2 DEF RequestsInv, OneSpeak, CancelsFollow
  <2>4. UsedIds'
    BY <1>2, <1>6, <1>8, <1>11 DEF RequestsInv, UsedIds
  <2>5. Fresh'
    <3>1. ~Uses(talk.id + 1, task.id, sent, heard, Bytes)
      BY <1>2, <1>6 DEF RequestsInv, UsedIds
    <3> QED
      BY <1>8, <1>11, <3>1 DEF Fresh
  <2>6. EarlierEnded'
    BY <1>2, <1>6, <1>7, <1>11 DEF CancelInv, EarlierEnded, Over
  <2>7. CancelsHit' /\ CancelledByRight'
    BY <1>1, <1>2, <1>3, <1>7, <1>11, <2>1 DEF CancelInv, CancelsHit, CancelledByRight, Over
  <2> QED
    BY <1>5, <2>3, <2>4, <2>5, <2>6, <2>7 DEF ConversationInv, CancelInv, RequestsInv
<1>12. ASSUME NEW m \in Command, m.kind = "cancel", Queue' = Append(Queue, m),
              talk'.id = talk.id, talk.id \in Reached'
       PROVE  ConversationInv'
  <2>1. /\ Len(Queue) \in Nat /\ Len(Queue') = Len(Queue) + 1
        /\ \A i \in 1 .. Len(Queue) : Queue'[i] = Queue[i]
        /\ Queue'[Len(Queue) + 1] = m
        /\ \A i \in 1 .. Len(Queue') : i \in 1 .. Len(Queue) \/ i = Len(Queue) + 1
    BY <1>6, <1>12, QueueGrows
  <2>2. OneSpeak' /\ CancelsFollow' /\ Fresh'
    BY <1>2, <1>3, <1>8, <1>12, <2>1 DEF RequestsInv, OneSpeak, CancelsFollow, Fresh
  <2>3. UsedIds'
    BY <1>2, <1>6, <1>8, <1>12 DEF RequestsInv, UsedIds
  <2>4. EarlierEnded'
    BY <1>2, <1>6, <1>7, <1>12 DEF CancelInv, EarlierEnded, Over
  <2>5. CancelsHit'
    <3>1. task.id = talk.id \/ Over(task.id)
      <4>1. task.id <= talk.id
        BY <1>2, <1>6 DEF RequestsInv, UsedIds, Uses
      <4> QED
        BY <1>2, <1>6, <4>1 DEF CancelInv, EarlierEnded
    <3> QED
      BY <1>1, <1>2, <1>3, <1>7, <1>12, <2>1, <3>1 DEF CancelInv, CancelsHit, Over
  <2>6. CancelledByRight'
    BY <1>1, <1>2, <1>3, <1>7, <1>12 DEF CancelInv, CancelledByRight, Over
  <2> QED
    BY <1>5, <2>2, <2>3, <2>4, <2>5, <2>6 DEF ConversationInv, CancelInv, RequestsInv
<1> QED
  BY <1>9, <1>10, <1>11, <1>12, TalkIs
-----------------------------------------------------------------------------
(* The loop takes the first command. *)

First == Queue[1]

\* What each command makes of the task, and the record it may be answered with.
LoopTakes ==
    \/ /\ First.kind \notin {"speak", "cancel"} /\ UNCHANGED <<task, session>>
       /\ \/ sent' = sent
          \/ \E event \in {"info", "voices", "unknown"} :
                sent' = Append(sent, AnswerTo(event, 0))
    \/ /\ First.kind = "speak" /\ UNCHANGED <<task, session>>
       /\ sent' = sent \/ sent' = Append(sent, AnswerTo("log", First.id))
    \/ /\ First.kind = "speak" /\ TaskCompleted /\ sent' = sent
       /\ task'.id = First.id /\ task'.place \in {"error", "word"} /\ ~task'.cancelled
       /\ task'.buffered = 0 /\ task'.total = 0 /\ task'.written = 0
    \/ /\ First.kind = "cancel" /\ sent' = sent
       /\ task'.pair = task.pair /\ task'.id = task.id /\ task'.place = task.place
       /\ task'.total = task.total /\ task'.written = task.written
       /\ task'.buffered = task.buffered
       /\ task'.cancelled = (task.place # "none")

LEMMA LoopIs ==
    ASSUME SpokenInv, Held, NEW p \in Pairs, UNCHANGED clientSide,
           AnswersQuery(p) \/ RefusesSpeak(p) \/ StartsSpeak(p) \/ HandlesCancel(p)
    PROVE  /\ p = Home /\ Home' = Home /\ Sound' = Sound /\ Connected(Home)' = Connected(Home)
           /\ First \in Command /\ Len(Queue) \in Nat /\ Len(Queue) >= 1
           /\ Len(Queue') = Len(Queue) - 1
           /\ \A i \in 1 .. Len(Queue') : i + 1 \in 1 .. Len(Queue) /\ Queue'[i] = Queue[i + 1]
<1>1. TypedPairs(pairs) /\ DataTyped /\ TaskStands /\ task \in TaskType /\ SessionTyped
  BY DEF SpokenInv, CrossInv, LifetimeInv, SayingTyped
<1>2. pairs[p].commands # <<>>
  BY <1>1, LoopTask
<1>3. p = Home /\ Home' = Home
  BY <1>2 DEF SpokenInv, AtHome, Empty, clientSide, Home
<1>4. SameEnds(pairs, pairs') /\ Queue' = Tail(Queue) /\ Sound' = Sound
  <2>1. /\ SameEnds(pairs, pairs')
        /\ pairs'[p].commands = Tail(pairs[p].commands) /\ pairs'[p].pcm = pairs[p].pcm
    BY <1>1, LoopMoves DEF DataBut
  <2> QED
    BY <1>3, <2>1 DEF Queue, Sound
<1>5. Connected(Home)' = Connected(Home)
  BY <1>3, <1>4, EndsStay DEF Connected
<1>6. First \in Command
  BY <1>1, <1>2, <1>3, HeadTyped DEF First, Queue
<1>7. Queue \in Seq(Command) /\ Len(Queue) \in Nat /\ Queue # <<>>
  BY <1>2, <1>3, QueueTyped DEF Queue
<1>8. Len(Queue) >= 1 /\ Len(Queue') = Len(Queue) - 1
  BY <1>4, <1>7
<1>9. \A i \in 1 .. Len(Queue') : i + 1 \in 1 .. Len(Queue) /\ Queue'[i] = Queue[i + 1]
  BY <1>4, <1>7
<1> QED
  BY <1>3, <1>4, <1>5, <1>6, <1>7, <1>8, <1>9

LEMMA LoopTakesFirst ==
    ASSUME SpokenInv, Held, NEW p \in Pairs, UNCHANGED clientSide,
           AnswersQuery(p) \/ RefusesSpeak(p) \/ StartsSpeak(p) \/ HandlesCancel(p)
    PROVE  LoopTakes
<1>1. TypedPairs(pairs) /\ DataTyped /\ TaskStands /\ task \in TaskType /\ SessionTyped
  BY DEF SpokenInv, CrossInv, LifetimeInv, SayingTyped
<1>2. p = Home /\ pairs[p].commands # <<>>
  BY <1>1, LoopIs, LoopTask
<1>3. Head(pairs[p].commands) = First /\ First \in Command
  BY <1>1, <1>2, HeadTyped DEF First, Queue
<1>4. \/ sent' = sent
      \/ /\ AnswersQuery(p) \/ RefusesSpeak(p)
         /\ \E event \in {"log", "info", "voices", "unknown"}, id \in Nat :
               /\ AnswersQuery(p) => event # "log" /\ id = 0
               /\ RefusesSpeak(p) => id = First.id
               /\ sent' = Append(sent, AnswerTo(event, id))
  BY <1>1, <1>3, LoopMoves
<1>5. CASE AnswersQuery(p)
  <2>1. First.kind \in {"info", "voices", "unknown"} /\ UNCHANGED <<task, session>>
    BY <1>3, <1>5 DEF AnswersQuery, NextCommand
  <2>2. \/ sent' = sent
        \/ \E event \in {"info", "voices", "unknown"} : sent' = Append(sent, AnswerTo(event, 0))
    BY <1>4, <1>5
  <2> QED
    BY <2>1, <2>2 DEF LoopTakes
<1>6. CASE RefusesSpeak(p)
  <2>1. First.kind = "speak" /\ UNCHANGED <<task, session>>
    BY <1>3, <1>6 DEF RefusesSpeak, NextCommand
  <2>2. sent' = sent \/ sent' = Append(sent, AnswerTo("log", First.id))
    <3>1. Reply(Taken(p), p, "log", First.id)
      BY <1>3, <1>6 DEF RefusesSpeak
    <3> QED
      BY <3>1 DEF Reply, WriteRecord, AnswerTo
  <2> QED
    BY <2>1, <2>2 DEF LoopTakes
<1>7. CASE StartsSpeak(p)
  <2> DEFINE m == First
             place == IF m.shape = "bad" THEN "error" ELSE "word"
             words == Words[m.shape]
  <2>1. m.kind = "speak" /\ TaskCompleted /\ sent' = sent
    BY <1>3, <1>7 DEF StartsSpeak, NextCommand
  <2>2. task' = [NoTask EXCEPT !.pair = p, !.id = m.id, !.shape = m.shape,
                               !.left = words, !.place = place]
    BY <1>3, <1>7 DEF StartsSpeak
  <2>3. place \in {"error", "word"}
    OBVIOUS
  <2> HIDE DEF m, place, words
  <2>4. task' = [pair |-> p, id |-> m.id, shape |-> m.shape, place |-> place,
                 left |-> words, first |-> TRUE, buffered |-> 0, total |-> 0,
                 written |-> 0, cancelled |-> FALSE]
    BY <2>2 DEF NoTask
  <2>5. /\ task'.id = m.id /\ task'.place = place /\ ~task'.cancelled
        /\ task'.buffered = 0 /\ task'.total = 0 /\ task'.written = 0
    BY <2>4
  <2> QED
    BY <2>1, <2>3, <2>5 DEF LoopTakes, m
<1>8. CASE HandlesCancel(p)
  <2> DEFINE c == (task.place # "none")
  <2>1. First.kind = "cancel" /\ sent' = sent
        /\ task' = [task EXCEPT !.cancelled = task.place # "none"]
    BY <1>3, <1>8 DEF HandlesCancel, NextCommand
  <2>2. task' = [task EXCEPT !.cancelled = c]
    BY <2>1
  <2> HIDE DEF c
  <2>3. /\ task'.pair = task.pair /\ task'.id = task.id /\ task'.place = task.place
        /\ task'.total = task.total /\ task'.written = task.written
        /\ task'.buffered = task.buffered /\ task'.cancelled = c
    BY <1>1, <2>2 DEF TaskType
  <2> QED
    BY <2>1, <2>3 DEF LoopTakes, c
<1> QED
  BY <1>5, <1>6, <1>7, <1>8

\* The numbers stay in order when the first command is taken and its number used.
LEMMA LoopKeepsRequests ==
    ASSUME SpokenInv, Held, RequestsInv, LoopTakes, UNCHANGED <<talk, heard>>, Bytes' = Bytes,
           First \in Command, Len(Queue) \in Nat, Len(Queue) >= 1, Len(Queue') = Len(Queue) - 1,
           \A i \in 1 .. Len(Queue') : i + 1 \in 1 .. Len(Queue) /\ Queue'[i] = Queue[i + 1]
    PROVE  RequestsInv'
<1>1. talk.id \in Nat /\ sent \in Seq(Record) /\ First.id \in Nat
  BY QueueTyped DEF SpokenInv, SayingTyped, Command
<1>2. 1 \in 1 .. Len(Queue)
  OBVIOUS
<1>3. First.kind = "speak" =>
         First.id = talk.id /\ \A j \in 1 .. Len(Queue) : Queue[j].kind = "speak" => j = 1
  BY <1>2 DEF RequestsInv, OneSpeak, First
<1>4. ASSUME NEW event, NEW id \in Nat, sent' = Append(sent, AnswerTo(event, id)), task' = task,
             NEW n \in Nat, Uses(n, task'.id, sent', heard', Bytes')
      PROVE  Uses(n, task.id, sent, heard, Bytes) \/ n = id
  <2>1. /\ Len(sent') = Len(sent) + 1 /\ Len(sent) \in Nat
        /\ \A i \in 1 .. Len(sent) : sent'[i] = sent[i]
        /\ sent'[Len(sent) + 1] = AnswerTo(event, id)
    BY <1>1, <1>4
  <2>2. \A i \in 1 .. Len(sent') : i \in 1 .. Len(sent) \/ i = Len(sent) + 1
    BY <2>1
  <2>3. (\E i \in 1 .. Len(sent') : sent'[i].id = n) =>
           (\E i \in 1 .. Len(sent) : sent[i].id = n) \/ n = id
    BY <2>1, <2>2 DEF AnswerTo
  <2> QED
    BY <1>4, <2>3 DEF Uses
<1>5. ASSUME NEW n \in Nat, Uses(n, task'.id, sent', heard', Bytes')
      PROVE  \/ Uses(n, task.id, sent, heard, Bytes)
             \/ First.kind = "speak" /\ n = First.id
  <2>1. CASE sent' = sent /\ task'.id = task.id
    BY <1>5, <2>1
  <2>2. CASE \E event \in {"info", "voices", "unknown"} :
                sent' = Append(sent, AnswerTo(event, 0)) /\ task' = task
    <3>1. PICK event \in {"info", "voices", "unknown"} :
                sent' = Append(sent, AnswerTo(event, 0)) /\ task' = task
      BY <2>2
    <3>2. Uses(n, task.id, sent, heard, Bytes) \/ n = 0
      BY <1>4, <1>5, <3>1
    <3> QED
      BY <3>2 DEF Uses
  <2>3. CASE First.kind = "speak" /\ sent' = Append(sent, AnswerTo("log", First.id)) /\ task' = task
    BY <1>1, <1>4, <1>5, <2>3
  <2>4. CASE First.kind = "speak" /\ sent' = sent /\ task'.id = First.id
    BY <1>5, <2>4 DEF Uses
  <2> QED
    BY <2>1, <2>2, <2>3, <2>4 DEF LoopTakes
<1>6. OneSpeak'
  <2> SUFFICES ASSUME NEW i \in 1 .. Len(Queue'), Queue'[i].kind = "speak"
               PROVE  /\ Queue'[i].id = talk.id
                      /\ \A j \in 1 .. Len(Queue') : Queue'[j].kind = "speak" => j = i
    BY DEF OneSpeak
  <2>1. /\ Queue[i + 1].id = talk.id
        /\ \A j \in 1 .. Len(Queue) : Queue[j].kind = "speak" => j = i + 1
    BY DEF RequestsInv, OneSpeak
  <2>2. ASSUME NEW j \in 1 .. Len(Queue'), Queue'[j].kind = "speak"
        PROVE  j = i
    <3>1. j + 1 \in 1 .. Len(Queue) /\ Queue[j + 1].kind = "speak"
      BY <2>2
    <3>2. j + 1 = i + 1
      BY <2>1, <3>1
    <3> QED
      BY <3>2
  <2> QED
    BY <2>1, <2>2
<1>7. CancelsFollow'
  <2> SUFFICES ASSUME NEW i \in 1 .. Len(Queue'), Queue'[i].kind = "cancel",
                      NEW j \in 1 .. Len(Queue'), j < i, Queue'[j].kind = "speak"
               PROVE  Queue'[j].id \in Reached
    BY DEF CancelsFollow, Reached
  <2>1. j + 1 \in 1 .. Len(Queue) /\ Queue[j + 1].kind = "speak" /\ j + 1 < i + 1
    OBVIOUS
  <2>2. i + 1 \in 1 .. Len(Queue) /\ Queue[i + 1].kind = "cancel"
    OBVIOUS
  <2>3. Queue[j + 1].id \in Reached
    BY <2>1, <2>2 DEF RequestsInv, CancelsFollow
  <2> QED
    BY <2>3
<1>8. UsedIds'
  <2>2. ASSUME NEW n \in Nat, Uses(n, task'.id, sent', heard', Bytes')
        PROVE  n <= talk.id
    <3>1. Uses(n, task.id, sent, heard, Bytes) \/ n = talk.id
      BY <1>3, <1>5, <2>2
    <3> QED
      BY <1>1, <3>1 DEF RequestsInv, UsedIds
  <2> QED
    BY <2>2 DEF UsedIds
<1>9. Fresh'
  <2> SUFFICES ASSUME NEW i \in 1 .. Len(Queue'), Queue'[i].kind = "speak",
                      Uses(talk.id, task'.id, sent', heard', Bytes')
               PROVE  FALSE
    BY DEF Fresh
  <2>1. i + 1 \in 1 .. Len(Queue) /\ Queue[i + 1].kind = "speak" /\ i + 1 # 1
    OBVIOUS
  <2>2. First.kind # "speak"
    BY <1>3, <2>1
  <2>3. ~Uses(talk.id, task.id, sent, heard, Bytes)
    BY <2>1 DEF RequestsInv, Fresh
  <2> QED
    BY <1>1, <1>5, <2>2, <2>3
<1> QED
  BY <1>6, <1>7, <1>8, <1>9 DEF RequestsInv

\* A record that says nothing of the audio.
LEMMA OtherRecord ==
    ASSUME RecordsCounted, RecordsOfTask, sent \in Seq(Record), NEW r \in Record,
           r.event \notin {"synthesis_complete", "synthesis_cancelled"},
           sent' = Append(sent, r), UNCHANGED heard, Bytes' = Bytes,
           task'.id = task.id, task'.total = task.total, task'.cancelled = task.cancelled,
           \/ task'.place = task.place
           \/ task'.place \in {"flush", "flushing", "late", "ack"}
           \/ \A i \in 1 .. Len(sent) : sent[i].id = task.id =>
                 sent[i].event \notin {"synthesis_complete", "synthesis_cancelled"},
           task.place = "done" => task'.place = "done"
    PROVE  RecordsCounted' /\ RecordsOfTask'
<1>1. /\ Len(sent') = Len(sent) + 1 /\ Len(sent) \in Nat
      /\ \A i \in 1 .. Len(sent) : sent'[i] = sent[i]
      /\ sent'[Len(sent) + 1] = r
  OBVIOUS
<1>2. \A i \in 1 .. Len(sent') : i \in 1 .. Len(sent) \/ i = Len(sent) + 1
  BY <1>1
<1>3. RecordsCounted'
  BY <1>1, <1>2 DEF RecordsCounted, Taking
<1>4. RecordsOfTask'
  <2> SUFFICES ASSUME NEW i \in 1 .. Len(sent), sent[i].id = task.id
               PROVE  /\ sent[i].event = "synthesis_complete" =>
                            /\ task'.place \in {"flush", "flushing", "late", "ack", "done"}
                            /\ sent[i].bytes = task.total
                            /\ task'.place = "done" /\ ~task.cancelled =>
                                  Taking(task.id) = task.total
                      /\ sent[i].event = "synthesis_cancelled" => task'.place = "done"
    BY <1>1, <1>2 DEF RecordsOfTask, Taking
  <2> QED
    BY DEF RecordsOfTask
<1> QED
  BY <1>3, <1>4

LEMMA LoopKeepsTotals ==
    ASSUME SpokenInv, Held, RequestsInv, TotalsInv, LoopTakes, UNCHANGED heard, Bytes' = Bytes,
           Home' = Home, Sound' = Sound, Connected(Home)' = Connected(Home),
           First \in Command, Len(Queue) \in Nat, Len(Queue) >= 1
    PROVE  TotalsInv'
<1>1. sent \in Seq(Record) /\ heard \in Seq(Nat) /\ Bytes \in Seq(Nat) /\ talk.id \in Nat
      /\ First.id \in Nat
  BY QueueTyped DEF SpokenInv, SayingTyped, HearingTyped, Bytes, ReadType, Channels, Command
<1>2. CASE sent' = sent /\ task' = task
  BY <1>2, TotalsStay
<1>3. ASSUME NEW event \in {"info", "voices", "unknown", "log"}, NEW id \in Nat,
             sent' = Append(sent, AnswerTo(event, id)), task' = task
      PROVE  TotalsInv'
  <2>1. AnswerTo(event, id) \in Record
        /\ AnswerTo(event, id).event \notin {"synthesis_complete", "synthesis_cancelled"}
    BY DEF AnswerTo, Record
  <2>2. RecordsCounted /\ RecordsOfTask
    BY DEF TotalsInv
  <2>3. RecordsCounted' /\ RecordsOfTask'
    BY <1>1, <1>3, <2>1, <2>2, OtherRecord
  <2>4. AudioIsOfTask' /\ SoundCounted' /\ TaskCounted'
    BY <1>3 DEF TotalsInv, AudioIsOfTask, SoundCounted, TaskCounted, Taking
  <2> QED
    BY <2>3, <2>4 DEF TotalsInv
<1>4. CASE /\ First.kind = "speak" /\ TaskCompleted /\ sent' = sent
           /\ task'.id = First.id /\ task'.place \in {"error", "word"} /\ ~task'.cancelled
           /\ task'.buffered = 0 /\ task'.total = 0 /\ task'.written = 0
  <2>1. First.id = talk.id /\ ~Uses(talk.id, task.id, sent, heard, Bytes)
    BY <1>4 DEF RequestsInv, OneSpeak, Fresh, First
  <2>2. /\ \A i \in 1 .. Len(sent) : sent[i].id # task'.id
        /\ \A i \in 1 .. Len(heard) : heard[i] # task'.id
        /\ \A i \in 1 .. Len(Bytes) : Bytes[i] # task'.id
    BY <1>4, <2>1 DEF Uses
  <2>3. Count(task'.id, heard) = 0 /\ Count(task'.id, Bytes) = 0
    BY <1>1, <2>2, CountNone
  <2>4. Sound = <<>>
    BY <1>4 DEF TotalsInv, AudioIsOfTask, TaskCompleted
  <2>5. AudioIsOfTask'
    BY <2>4 DEF AudioIsOfTask
  <2>6. SoundCounted'
    BY <1>4, <2>3 DEF SoundCounted, Taking, Both, Written, Writing
  <2>7. TaskCounted'
    BY <1>4 DEF TaskCounted, Written, Writing
  <2>8. RecordsCounted'
    BY <1>4 DEF TotalsInv, RecordsCounted, Taking
  <2>9. RecordsOfTask'
    BY <1>4, <2>2 DEF RecordsOfTask
  <2> QED
    BY <2>5, <2>6, <2>7, <2>8, <2>9 DEF TotalsInv
<1>5. CASE /\ sent' = sent /\ task'.pair = task.pair /\ task'.id = task.id
           /\ task'.place = task.place /\ task'.total = task.total
           /\ task'.written = task.written /\ task'.buffered = task.buffered
           /\ task'.cancelled = (task.place # "none")
  <2>1. AudioIsOfTask' /\ SoundCounted'
    BY <1>5 DEF TotalsInv, AudioIsOfTask, SoundCounted, Taking
  <2>2. TaskCounted'
    BY <1>5 DEF TotalsInv, TaskCounted
  <2>3. RecordsCounted'
    BY <1>5 DEF TotalsInv, RecordsCounted, Taking
  <2>4. RecordsOfTask'
    BY <1>5 DEF TotalsInv, RecordsOfTask
  <2> QED
    BY <2>1, <2>2, <2>3, <2>4 DEF TotalsInv
<1> QED
  BY <1>1, <1>2, <1>3, <1>4, <1>5 DEF LoopTakes

LEMMA LoopKeepsCancels ==
    ASSUME SpokenInv, Held, RequestsInv, CancelInv, RecordsCounted, LoopTakes,
           UNCHANGED <<talk, lines, heard>>, First \in Command,
           Len(Queue) \in Nat, Len(Queue) >= 1, Len(Queue') = Len(Queue) - 1,
           \A i \in 1 .. Len(Queue') : i + 1 \in 1 .. Len(Queue) /\ Queue'[i] = Queue[i + 1]
    PROVE  CancelInv'
<1>1. sent \in Seq(Record) /\ talk.id \in Nat /\ task.id \in Nat /\ First.id \in Nat
      /\ 1 \in 1 .. Len(Queue)
  BY QueueTyped DEF SpokenInv, SayingTyped, Command
<1>2. HistoryGrows
  <2>1. \A event \in {"info", "voices", "unknown", "log"}, id \in Nat : AnswerTo(event, id) \in Record
    BY DEF AnswerTo, Record
  <2> QED
    BY <1>1, <2>1 DEF LoopTakes, HistoryGrows
<1>3. \A n \in Nat : Over(n) => EndedBy(n, sent', lines', heard')
  BY <1>2, EndedStays
<1>4. EarlierEnded'
  BY <1>1, <1>3 DEF CancelInv, EarlierEnded, Over
<1>5. task.id = talk.id \/ Over(task.id)
  <2>1. task.id <= talk.id
    BY <1>1 DEF RequestsInv, UsedIds, Uses
  <2> QED
    BY <1>1, <2>1 DEF CancelInv, EarlierEnded
<1>6. First.kind = "speak" => First.id = talk.id
  BY <1>1 DEF RequestsInv, OneSpeak, First
<1>7. task'.id = task.id \/ (First.kind = "speak" /\ task'.id = First.id)
  BY DEF LoopTakes
<1>8. CancelsHit'
  <2> SUFFICES ASSUME NEW i \in 1 .. Len(Queue'), Queue'[i].kind = "cancel",
                      \A j \in 1 .. Len(Queue') : ~(j < i /\ Queue'[j].kind = "speak")
               PROVE  task'.id \in Reached \/ EndedBy(task'.id, sent', lines', heard')
    BY DEF CancelsHit, Over, Reached
  <2>1. i + 1 \in 1 .. Len(Queue) /\ Queue'[i] = Queue[i + 1] /\ i \in Nat /\ i >= 1
    OBVIOUS
  <2>2. CASE First.kind = "speak"
    <3>1. First.id \in Reached
      <4>1. 1 < i + 1
        BY <2>1
      <4> QED
        BY <1>1, <2>1, <2>2, <4>1 DEF RequestsInv, CancelsFollow, First
    <3> QED
      BY <1>1, <1>3, <1>5, <1>6, <1>7, <2>2, <3>1
  <2>3. CASE First.kind # "speak"
    <3>1. \A j \in 1 .. Len(Queue) : ~(j < i + 1 /\ Queue[j].kind = "speak")
      <4> SUFFICES ASSUME NEW j \in 1 .. Len(Queue), j < i + 1, Queue[j].kind = "speak"
                   PROVE  FALSE
        OBVIOUS
      <4>1. j # 1
        BY <2>3 DEF First
      <4>2. j - 1 \in 1 .. Len(Queue') /\ j - 1 < i
        BY <2>1, <4>1
      <4>3. Queue'[j - 1] = Queue[(j - 1) + 1] /\ (j - 1) + 1 = j
        BY <4>2
      <4> QED
        BY <4>2, <4>3
    <3>2. task.id \in Reached \/ Over(task.id)
      BY <2>1, <3>1 DEF CancelInv, CancelsHit
    <3> QED
      BY <1>1, <1>3, <1>7, <2>1, <2>3, <3>2
  <2> QED
    BY <2>2, <2>3
<1>9. CancelledByRight'
  <2>1. CASE UNCHANGED <<task, session>>
    BY <1>1, <1>3, <2>1 DEF CancelInv, CancelledByRight, Over, Reached
  <2>2. CASE ~task'.cancelled
    BY <2>2 DEF CancelledByRight
  <2>3. CASE First.kind = "cancel" /\ task'.id = task.id
    <3>1. task.id \in Reached \/ Over(task.id)
      <4>1. \A j \in 1 .. Len(Queue) : ~(j < 1)
        BY <1>1
      <4> QED
        BY <1>1, <2>3, <4>1 DEF CancelInv, CancelsHit, First
    <3> QED
      BY <1>1, <1>3, <2>3, <3>1 DEF CancelledByRight, Over, Reached
  <2> QED
    BY <2>1, <2>2, <2>3 DEF LoopTakes
<1> QED
  BY <1>4, <1>8, <1>9 DEF CancelInv

LEMMA LoopKeepsConversation ==
    ASSUME SpokenInv, ConversationInv, Held, NEW p \in Pairs, UNCHANGED clientSide,
           AnswersQuery(p) \/ RefusesSpeak(p) \/ StartsSpeak(p) \/ HandlesCancel(p)
    PROVE  ConversationInv'
<1>1. RequestsInv /\ TotalsInv /\ CancelInv /\ RecordsCounted
  BY DEF ConversationInv, TotalsInv
<1>2. LoopTakes
  BY LoopTakesFirst
<1>3. UNCHANGED <<talk, lines, heard>> /\ Bytes' = Bytes
  BY DEF clientSide, ioVars, Bytes
<1>4. /\ Home' = Home /\ Sound' = Sound /\ Connected(Home)' = Connected(Home)
      /\ First \in Command /\ Len(Queue) \in Nat /\ Len(Queue) >= 1
      /\ Len(Queue') = Len(Queue) - 1
      /\ \A i \in 1 .. Len(Queue') : i + 1 \in 1 .. Len(Queue) /\ Queue'[i] = Queue[i + 1]
  BY LoopIs
<1>5. RequestsInv'
  BY <1>1, <1>2, <1>3, <1>4, LoopKeepsRequests
<1>6. TotalsInv'
  BY <1>1, <1>2, <1>3, <1>4, LoopKeepsTotals
<1>7. CancelInv'
  BY <1>1, <1>2, <1>3, <1>4, LoopKeepsCancels
<1> QED
  BY <1>5, <1>6, <1>7 DEF ConversationInv
-----------------------------------------------------------------------------
(* The task of the talker. *)

\* The pieces of a state in which the task of the talker goes on.
LEMMA TaskTotals ==
    ASSUME SpokenInv, TotalsInv, Held, task.pair = Home, Connected(Home)
    PROVE  /\ task \in TaskType /\ sent \in Seq(Record) /\ Sound \in Seq(Nat)
           /\ task.id \in Nat /\ task.id >= 1 /\ Len(Sound) \in Nat /\ Len(Sound) <= 2
           /\ task.written \in Nat /\ task.total \in Nat /\ task.buffered \in Nat
           /\ Taking(task.id) \in Nat
           /\ Sound # <<>> => task.place \in Writing /\ \A i \in 1 .. Len(Sound) : Sound[i] = task.id
           /\ task.place \in Written => Taking(task.id) = task.written
           /\ task.place \in Writing => Taking(task.id) + Len(Sound) = task.written + 2
           /\ task.place \in {"late", "ack"} =>
                 Taking(task.id) - task.written \in {0, 1} /\ task.cancelled
           /\ task.place \in Written \cup Writing => task.total = task.written + 2 * task.buffered
           /\ task.place \notin {"flush", "flushing", "late", "ack", "done"} =>
                 \A i \in 1 .. Len(sent) : sent[i].id = task.id =>
                    sent[i].event \notin {"synthesis_complete", "synthesis_cancelled"}
<1>1. /\ task \in TaskType /\ sent \in Seq(Record) /\ Sound \in Seq(Nat)
      /\ Len(Sound) \in Nat /\ Len(Sound) <= 2 /\ Home # 0 /\ task.id \in Nat
  BY QueueTyped DEF SpokenInv, SayingTyped
<1>2. heard \in Seq(Nat) /\ Bytes \in Seq(Nat)
  BY DEF SpokenInv, HearingTyped, Bytes, ReadType, Channels
<1>3. task.id >= 1
  BY <1>1 DEF SpokenInv, TaskStands
<1>4. task.written \in Nat /\ task.total \in Nat /\ task.buffered \in Nat
  BY <1>1 DEF TaskType
<1>5. Taking(task.id) \in Nat
  BY <1>1, <1>2, BothTyped DEF Taking
<1>6. Sound # <<>> => task.place \in Writing /\ \A i \in 1 .. Len(Sound) : Sound[i] = task.id
  BY DEF TotalsInv, AudioIsOfTask, Writing
<1>7. /\ task.place \in Written => Taking(task.id) = task.written
      /\ task.place \in Writing => Taking(task.id) + Len(Sound) = task.written + 2
      /\ task.place \in {"late", "ack"} => Taking(task.id) - task.written \in {0, 1}
  BY DEF TotalsInv, SoundCounted
<1>8. /\ task.place \in {"late", "ack"} => task.cancelled
      /\ task.place \in Written \cup Writing => task.total = task.written + 2 * task.buffered
  BY DEF TotalsInv, TaskCounted
<1>9. task.place \notin {"flush", "flushing", "late", "ack", "done"} =>
         \A i \in 1 .. Len(sent) : sent[i].id = task.id =>
            sent[i].event \notin {"synthesis_complete", "synthesis_cancelled"}
  BY DEF TotalsInv, RecordsOfTask
<1> QED
  BY <1>1, <1>3, <1>4, <1>5, <1>6, <1>7, <1>8, <1>9

\* What is left to show of a step of the task that writes no record of its end.
LEMMA TaskCounts ==
    ASSUME SpokenInv, TotalsInv, Held, task.pair = Home, Connected(Home),
           UNCHANGED heard, Bytes' = Bytes, Home' = Home,
           task'.id = task.id, task'.pair = Home, Connected(Home)' = Connected(Home),
           Sound' # <<>> => task'.place \in Writing /\ \A i \in 1 .. Len(Sound') : Sound'[i] = task.id,
           task'.place \in Written => Taking(task.id) = task'.written,
           task'.place \in Writing => Taking(task.id) + Len(Sound') = task'.written + 2,
           task'.place \in {"late", "ack"} =>
              Taking(task.id) - task'.written \in {0, 1} /\ task'.cancelled,
           task'.place \in Written \cup Writing => task'.total = task'.written + 2 * task'.buffered
    PROVE  AudioIsOfTask' /\ SoundCounted' /\ TaskCounted'
<1>1. AudioIsOfTask'
  BY DEF AudioIsOfTask, Writing
<1>2. SoundCounted'
  BY DEF SoundCounted, Taking
<1>3. TaskCounted'
  BY DEF TaskCounted
<1> QED
  BY <1>1, <1>2, <1>3

\* The records stay true of a task that has not ended yet.
LEMMA SameRecords ==
    ASSUME RecordsCounted, RecordsOfTask, UNCHANGED <<sent, heard>>, Bytes' = Bytes,
           task'.id = task.id,
           \/ /\ task'.place \in {"flush", "flushing", "late", "ack"} /\ task'.total = task.total
              /\ task.place # "done"
           \/ \A i \in 1 .. Len(sent) : sent[i].id = task.id =>
                 sent[i].event \notin {"synthesis_complete", "synthesis_cancelled"}
    PROVE  RecordsCounted' /\ RecordsOfTask'
<1>1. RecordsCounted'
  BY DEF RecordsCounted, Taking
<1>2. RecordsOfTask'
  BY DEF RecordsOfTask
<1> QED
  BY <1>1, <1>2

\* A buffer is put aside, written at once, or written in the end.
LEMMA BuffersAdd ==
    ASSUME NEW w \in Nat, NEW b \in Nat, NEW t \in Nat, t = w + 2 * b
    PROVE  t + 2 = w + 2 * (b + 1) /\ t + 2 = (w + 2) + 2 * b /\ t = (w + 2) + 2 * (b - 1)
OBVIOUS

LEMMA QuietKeepsTotals ==
    ASSUME SpokenInv, TotalsInv, Held, Home' = Home, UNCHANGED heard, Bytes' = Bytes,
           Quiet(Home), Connected(Home)' = Connected(Home), Sound' = Sound
    PROVE  TotalsInv'
<1> DEFINE had == Taking(task.id)
<1>1. task \in TaskType /\ TaskStands /\ Home \in Pairs
  BY QueueTyped DEF SpokenInv, SayingTyped
<1>2. /\ SameTask /\ UNCHANGED <<pairs, sent, session>> /\ task.pair = Home /\ Connected(Home)
      /\ \/ /\ task.cancelled /\ task'.place = "late"
            /\ task.place \in {"word", "delay", "complete"}
            /\ UNCHANGED <<task.left, task.buffered, task.total, task.written>>
         \/ /\ task.place = "word" /\ task'.place = "complete"
            /\ UNCHANGED <<task.left, task.buffered, task.total, task.written>>
         \/ /\ task.place = "delay" /\ task'.place = "word"
            /\ task'.buffered = task.buffered + 1 /\ task'.total = task.total + 2
            /\ task'.written = task.written
         \/ /\ task.place = "write" /\ task'.place = "word"
            /\ task'.buffered = task.buffered /\ task'.total = task.total + 2
            /\ task'.written = task.written + 2 /\ Sound = <<>>
         \/ /\ task.place = "flushing" /\ task'.place = "flush"
            /\ task'.buffered = task.buffered - 1 /\ task'.total = task.total
            /\ task'.written = task.written + 2 /\ Sound = <<>>
  BY <1>1, QuietTask DEF Sound
<1>3. /\ Len(Sound) \in Nat /\ task.written \in Nat /\ task.total \in Nat
      /\ task.buffered \in Nat /\ had \in Nat
      /\ Sound # <<>> => task.place \in Writing
      /\ task.place \in Written => had = task.written
      /\ task.place \in Writing => had + Len(Sound) = task.written + 2
      /\ task.place \in Written \cup Writing => task.total = task.written + 2 * task.buffered
      /\ task.place \notin {"flush", "flushing", "late", "ack", "done"} =>
            \A i \in 1 .. Len(sent) : sent[i].id = task.id =>
               sent[i].event \notin {"synthesis_complete", "synthesis_cancelled"}
  BY <1>2, TaskTotals
<1> HIDE DEF had
<1>4. Sound = <<>>
  BY <1>2, <1>3 DEF Writing
<1>5. Len(Sound) = 0
  BY <1>4
<1>6. /\ task'.place \in Written => had = task'.written
      /\ task'.place \notin Writing
      /\ task'.place \in {"late", "ack"} => had - task'.written \in {0, 1} /\ task'.cancelled
      /\ task'.place \in Written \cup Writing => task'.total = task'.written + 2 * task'.buffered
  <2>1. task'.cancelled = task.cancelled
    BY <1>2 DEF SameTask
  <2>2. task'.place \in {"late", "complete", "word", "flush"}
    BY <1>2
  <2>3. CASE task.place \in {"word", "delay", "complete"} /\ task'.written = task.written
    <3>1. had = task.written /\ task.total = task.written + 2 * task.buffered
      BY <1>3, <2>3 DEF Written
    <3>2. task'.place \in {"late", "ack"} => task'.cancelled
      BY <1>2, <2>1
    <3>5. \/ task'.total = task.total /\ task'.buffered = task.buffered
          \/ task'.total = task.total + 2 /\ task'.buffered = task.buffered + 1
      BY <1>2, <2>3
    <3>3. task'.total = task'.written + 2 * task'.buffered
      <4>1. task.total + 2 = task.written + 2 * (task.buffered + 1)
        BY <1>3, <3>1, BuffersAdd
      <4> QED
        BY <2>3, <3>1, <3>5, <4>1
    <3>4. had = task'.written /\ had - task'.written = 0
      BY <1>3, <2>3, <3>1
    <3> QED
      BY <2>2, <3>2, <3>3, <3>4 DEF Writing
  <2>4. CASE task.place \in {"write", "flushing"} /\ task'.written = task.written + 2
    <3>1. had + 0 = task.written + 2 /\ task.total = task.written + 2 * task.buffered
      BY <1>3, <1>5, <2>4 DEF Writing
    <3>2. had = task'.written
      BY <1>3, <2>4, <3>1
    <3>5. \/ task'.total = task.total + 2 /\ task'.buffered = task.buffered
          \/ task'.total = task.total /\ task'.buffered = task.buffered - 1
      BY <1>2, <2>4
    <3>3. task'.total = task'.written + 2 * task'.buffered
      <4> DEFINE t == task.total
                 w == task.written
                 b == task.buffered
      <4>2. t \in Nat /\ w \in Nat /\ b \in Nat /\ t = w + 2 * b
        BY <1>3, <3>1
      <4> HIDE DEF t, w, b
      <4>1. t + 2 = (w + 2) + 2 * b /\ t = (w + 2) + 2 * (b - 1)
        BY <4>2, BuffersAdd
      <4> QED
        BY <2>4, <3>5, <4>1 DEF t, w, b
    <3>4. task'.place \in {"word", "flush"}
      BY <1>2, <2>4
    <3> QED
      BY <3>2, <3>3, <3>4 DEF Writing
  <2> QED
    BY <1>2, <2>3, <2>4
<1>7. AudioIsOfTask' /\ SoundCounted' /\ TaskCounted'
  <2>1. task'.id = task.id /\ task'.pair = Home
    BY <1>2 DEF SameTask
  <2> QED
    BY <1>2, <1>4, <1>6, <2>1, TaskCounts DEF had
<1>8. RecordsCounted' /\ RecordsOfTask'
  <2>1. \/ /\ task'.place \in {"flush", "flushing", "late", "ack"} /\ task'.total = task.total
           /\ task.place # "done"
        \/ \A i \in 1 .. Len(sent) : sent[i].id = task.id =>
              sent[i].event \notin {"synthesis_complete", "synthesis_cancelled"}
    BY <1>2, <1>3
  <2>2. task'.id = task.id /\ RecordsCounted /\ RecordsOfTask
    BY <1>2 DEF SameTask, TotalsInv
  <2> QED
    BY <1>2, <2>1, <2>2, SameRecords
<1> QED
  BY <1>7, <1>8 DEF TotalsInv

LEMMA SaysKeepsTotals ==
    ASSUME SpokenInv, TotalsInv, Held, Home' = Home, UNCHANGED heard, Bytes' = Bytes,
           Says(Home), Connected(Home)' = Connected(Home), Sound' = Sound
    PROVE  TotalsInv'
<1> DEFINE had == Taking(task.id)
           unharmed == \A i \in 1 .. Len(sent) : sent[i].id = task.id =>
                          sent[i].event \notin {"synthesis_complete", "synthesis_cancelled"}
<1>1. task \in TaskType /\ TypedPairs(pairs) /\ Home \in Pairs
  BY QueueTyped DEF SpokenInv, SayingTyped, CrossInv, LifetimeInv
<1>2. /\ SameTask /\ task.pair = Home /\ Connected(Home)
      /\ UNCHANGED <<task.left, task.buffered, task.total, task.written>>
  BY <1>1, SayingTask
<1>3. PICK event \in {"word_boundary", "sentence_boundary", "synthesis_complete",
                      "synthesis_cancelled", "error"}, bytes \in Nat :
         /\ sent' = Append(sent, [event |-> event, id |-> task.id, bytes |-> bytes])
         /\ \/ event = "word_boundary" /\ task.place = "word" /\ task'.place = "delay"
            \/ /\ event = "synthesis_complete" /\ task.place = "complete"
               /\ task'.place = "flush" /\ bytes = task.total
            \/ event = "sentence_boundary" /\ task.place = "late" /\ task'.place = "ack"
            \/ /\ event = "synthesis_cancelled" /\ task.place = "ack"
               /\ task'.place = "done" /\ bytes = task.written
            \/ event = "error" /\ task.place = "error" /\ task'.place = "done"
  BY <1>1, SayingTask
<1>4. /\ sent \in Seq(Record) /\ task.id \in Nat /\ task.id >= 1
      /\ task.written \in Nat /\ task.total \in Nat /\ task.buffered \in Nat /\ had \in Nat
      /\ Sound # <<>> => task.place \in Writing
      /\ task.place \in Written => had = task.written
      /\ task.place \in {"late", "ack"} => had - task.written \in {0, 1} /\ task.cancelled
      /\ task.place \in Written \cup Writing => task.total = task.written + 2 * task.buffered
      /\ task.place \notin {"flush", "flushing", "late", "ack", "done"} => unharmed
  BY <1>2, TaskTotals
<1>5. task'.id = task.id /\ task'.pair = Home /\ task'.cancelled = task.cancelled
      /\ task'.written = task.written /\ task'.total = task.total /\ task'.buffered = task.buffered
  BY <1>2 DEF SameTask
<1> HIDE DEF had, unharmed
<1>6. Sound = <<>>
  BY <1>3, <1>4 DEF Writing
<1>7. AudioIsOfTask' /\ SoundCounted' /\ TaskCounted'
  <2>1. /\ task'.place \in Written => had = task'.written
        /\ task'.place \notin Writing
        /\ task'.place \in Written \cup Writing => task'.total = task'.written + 2 * task'.buffered
    BY <1>3, <1>4, <1>5 DEF Written, Writing
  <2>2. task'.place \in {"late", "ack"} => had - task'.written \in {0, 1} /\ task'.cancelled
    BY <1>3, <1>4, <1>5
  <2> QED
    BY <1>2, <1>5, <1>6, <2>1, <2>2, TaskCounts DEF had
<1> DEFINE r == [event |-> event, id |-> task.id, bytes |-> bytes]
<1>8. r \in Record /\ r.event = event /\ r.id = task.id /\ r.bytes = bytes /\ sent' = Append(sent, r)
  <2>1. event \in {"info", "voices", "unknown", "log", "error", "word_boundary",
                   "sentence_boundary", "synthesis_complete", "synthesis_cancelled"}
    BY <1>3
  <2> QED
    BY <1>3, <1>4, <2>1 DEF Record
<1> HIDE DEF r
<1>9. RecordsCounted /\ RecordsOfTask
  BY DEF TotalsInv
<1>10. CASE event \notin {"synthesis_complete", "synthesis_cancelled"}
  <2>1. \/ task'.place \in {"flush", "flushing", "late", "ack"}
        \/ unharmed
    BY <1>3, <1>4, <1>10
  <2>2. task.place # "done"
    BY <1>3
  <2>3. RecordsCounted' /\ RecordsOfTask'
    BY <1>4, <1>5, <1>8, <1>9, <1>10, <2>1, <2>2, OtherRecord DEF unharmed
  <2> QED
    BY <1>7, <2>3 DEF TotalsInv
<1>11. /\ Len(sent') = Len(sent) + 1 /\ Len(sent) \in Nat
       /\ \A i \in 1 .. Len(sent) : sent'[i] = sent[i]
       /\ sent'[Len(sent) + 1] = r
       /\ \A i \in 1 .. Len(sent') : i \in 1 .. Len(sent) \/ i = Len(sent) + 1
  BY <1>4, <1>8
<1>12. CASE event = "synthesis_complete"
  <2>1. task.place = "complete" /\ task'.place = "flush" /\ bytes = task.total /\ unharmed
    BY <1>3, <1>4, <1>12
  <2>2. had = task.written /\ had <= task.total
    BY <1>4, <2>1 DEF Written
  <2>3. RecordsCounted'
    <3>1. /\ r.id >= 1 /\ Taking(r.id) <= r.bytes /\ r.event # "synthesis_cancelled"
      BY <1>4, <1>8, <1>12, <2>1, <2>2 DEF had
    <3> QED
      BY <1>9, <1>11, <3>1 DEF RecordsCounted, Taking
  <2>4. RecordsOfTask'
    <3>1. r.bytes = task'.total /\ r.event # "synthesis_cancelled" /\ task'.place = "flush"
      BY <1>5, <1>8, <1>12, <2>1
    <3> QED
      BY <1>5, <1>11, <2>1, <3>1 DEF RecordsOfTask, unharmed
  <2> QED
    BY <1>7, <2>3, <2>4 DEF TotalsInv
<1>13. CASE event = "synthesis_cancelled"
  <2>1. task.place = "ack" /\ task'.place = "done" /\ bytes = task.written
        /\ had - task.written \in {0, 1} /\ task.cancelled
    BY <1>3, <1>4, <1>13
  <2>2. RecordsCounted'
    <3>1. r.id >= 1 /\ Taking(r.id) - r.bytes \in {0, 1} /\ r.event # "synthesis_complete"
      BY <1>4, <1>8, <1>13, <2>1 DEF had
    <3> QED
      BY <1>9, <1>11, <3>1 DEF RecordsCounted, Taking
  <2>3. RecordsOfTask'
    <3>1. r.event # "synthesis_complete"
      BY <1>8, <1>13
    <3> QED
      BY <1>5, <1>9, <1>11, <2>1, <3>1 DEF RecordsOfTask
  <2> QED
    BY <1>7, <2>2, <2>3 DEF TotalsInv
<1> QED
  BY <1>10, <1>12, <1>13

LEMMA SoundsKeepsTotals ==
    ASSUME SpokenInv, TotalsInv, Held, Home' = Home, UNCHANGED heard, Bytes' = Bytes,
           Sounds(Home), Connected(Home)' = Connected(Home)
    PROVE  TotalsInv'
<1> DEFINE had == Taking(task.id)
           unharmed == \A i \in 1 .. Len(sent) : sent[i].id = task.id =>
                          sent[i].event \notin {"synthesis_complete", "synthesis_cancelled"}
           two == <<task.id, task.id>>
           none == <<>>
<1>1. task \in TaskType /\ TypedPairs(pairs) /\ Home \in Pairs
  BY QueueTyped DEF SpokenInv, SayingTyped, CrossInv, LifetimeInv
<1>2. /\ SameTask /\ sent' = sent /\ task.pair = Home /\ Connected(Home)
      /\ UNCHANGED <<task.left, task.buffered, task.total, task.written>>
      /\ \/ task.place = "delay" /\ task'.place = "write" /\ Sound' = two
         \/ task.place = "flush" /\ task'.place = "done" /\ task.buffered = 0 /\ Sound' = Sound
         \/ task.place = "flush" /\ task'.place = "late" /\ task.cancelled /\ Sound' = Sound
         \/ task.place = "flush" /\ task'.place = "flushing" /\ Sound' = two
         \/ /\ task.place \in {"write", "flushing"} /\ task'.place = "late" /\ task.cancelled
            /\ Sound # none /\ Sound' = none
  BY <1>1, SoundingTask DEF DataBut, Sound
<1>3. /\ Len(Sound) \in Nat /\ Len(Sound) <= 2 /\ task.id \in Nat
      /\ task.written \in Nat /\ task.total \in Nat /\ task.buffered \in Nat /\ had \in Nat
      /\ Sound \in Seq(Nat) /\ (Sound # <<>> => task.place \in Writing)
      /\ task.place \in Written => had = task.written
      /\ task.place \in Writing => had + Len(Sound) = task.written + 2
      /\ task.place \in Written \cup Writing => task.total = task.written + 2 * task.buffered
      /\ task.place \notin {"flush", "flushing", "late", "ack", "done"} => unharmed
  BY <1>2, TaskTotals
<1>4. task'.id = task.id /\ task'.pair = Home /\ task'.cancelled = task.cancelled
      /\ task'.written = task.written /\ task'.total = task.total /\ task'.buffered = task.buffered
  BY <1>2 DEF SameTask
<1>5. two \in Seq(Nat) /\ Len(two) = 2 /\ (\A i \in 1 .. 2 : two[i] = task.id)
      /\ Len(none) = 0 /\ (\A i \in 1 .. Len(none) : none[i] = task.id)
  BY <1>3
<1>6. task.place \in Written => Sound = none
  BY <1>3 DEF Written, Writing
<1>7. Sound # none => Len(Sound) >= 1
  BY <1>3
<1> HIDE DEF had, unharmed, two, none
<1>8. RecordsCounted /\ RecordsOfTask
  BY DEF TotalsInv
<1>9. CASE /\ Sound' = two
           /\ \/ task.place = "delay" /\ task'.place = "write"
              \/ task.place = "flush" /\ task'.place = "flushing"
  <2>1. had = task.written /\ task.total = task.written + 2 * task.buffered
    BY <1>3, <1>9 DEF Written
  <2>2. had + Len(Sound') = task'.written + 2
    BY <1>3, <1>4, <1>5, <1>9, <2>1
  <2>3. task'.place \in Writing /\ task'.place \notin Written /\ task'.place \notin {"late", "ack"}
    BY <1>9 DEF Written, Writing
  <2>8. task'.total = task'.written + 2 * task'.buffered
    BY <1>4, <2>1
  <2>4. \A i \in 1 .. Len(Sound') : Sound'[i] = task.id
    BY <1>5, <1>9
  <2>5. AudioIsOfTask' /\ SoundCounted' /\ TaskCounted'
    BY <1>2, <1>4, <2>2, <2>3, <2>4, <2>8, TaskCounts DEF had
  <2>6. \/ /\ task'.place \in {"flush", "flushing", "late", "ack"} /\ task'.total = task.total
           /\ task.place # "done"
        \/ unharmed
    BY <1>2, <1>3, <1>4, <1>9
  <2>7. RecordsCounted' /\ RecordsOfTask'
    BY <1>2, <1>4, <1>8, <2>6, SameRecords DEF unharmed
  <2> QED
    BY <2>5, <2>7 DEF TotalsInv
<1>10. CASE task.place = "flush" /\ task'.place = "done" /\ task.buffered = 0 /\ Sound' = Sound
  <2>1. had = task.written /\ had = task.total /\ Sound' = none
    BY <1>3, <1>6, <1>10 DEF Written
  <2>2. AudioIsOfTask' /\ SoundCounted' /\ TaskCounted'
    BY <1>4, <1>10, <2>1 DEF AudioIsOfTask, SoundCounted, TaskCounted, Written, Writing, none
  <2>3. RecordsCounted'
    BY <1>2, <1>8 DEF RecordsCounted, Taking
  <2>4. RecordsOfTask'
    BY <1>2, <1>4, <1>8, <1>10, <2>1 DEF RecordsOfTask, Taking, had
  <2> QED
    BY <2>2, <2>3, <2>4 DEF TotalsInv
<1>11. CASE /\ task'.place = "late" /\ task.cancelled /\ Sound' = none
            /\ had - task.written \in {0, 1}
            /\ task.place = "flush" \/ task.place \in Writing
  <2>1. /\ task'.place \notin Written \cup Writing
        /\ had - task'.written \in {0, 1} /\ task'.cancelled
    BY <1>4, <1>11 DEF Written, Writing
  <2>2. AudioIsOfTask' /\ SoundCounted' /\ TaskCounted'
    BY <1>2, <1>4, <1>11, <2>1, TaskCounts DEF had, none
  <2>3. task.place # "done"
    BY <1>11 DEF Writing
  <2>4. RecordsCounted' /\ RecordsOfTask'
    BY <1>2, <1>4, <1>8, <1>11, <2>3, SameRecords
  <2> QED
    BY <2>2, <2>4 DEF TotalsInv
<1>12. CASE task.place = "flush" /\ task'.place = "late" /\ task.cancelled /\ Sound' = Sound
  <2>1. had = task.written
    BY <1>3, <1>12 DEF Written
  <2>2. had - task.written = 0
    BY <1>3, <2>1
  <2>3. Sound' = none
    BY <1>6, <1>12 DEF Written
  <2> QED
    BY <1>11, <1>12, <2>2, <2>3
<1>13. CASE /\ task.place \in {"write", "flushing"} /\ task'.place = "late" /\ task.cancelled
            /\ Sound # none /\ Sound' = none
  <2>1. had + Len(Sound) = task.written + 2 /\ Len(Sound) >= 1
    BY <1>3, <1>7, <1>13 DEF Writing
  <2>2. had - task.written = 2 - Len(Sound)
    BY <1>3, <2>1
  <2>3. 2 - Len(Sound) \in {0, 1}
    <3>1. 2 - Len(Sound) \in {0, 1}
      <4>1. Len(Sound) \in Nat /\ Len(Sound) <= 2 /\ Len(Sound) >= 1
        BY <1>3, <2>1
      <4>2. \A k \in Nat : k <= 2 /\ k >= 1 => 2 - k \in {0, 1}
        OBVIOUS
      <4> QED
        BY <4>1, <4>2
    <3> QED
      BY <3>1
  <2> QED
    BY <1>11, <1>13, <2>2, <2>3 DEF Writing
<1> QED
  BY <1>2, <1>9, <1>10, <1>12, <1>13 DEF Writing

LEMMA FailKeepsTotals ==
    ASSUME SpokenInv, TotalsInv, Held, Home' = Home, UNCHANGED <<sent, heard>>, Bytes' = Bytes,
           Sound' = Sound, ~Connected(Home), task'.pair = 0, task'.id = 0, task'.place = "done"
    PROVE  TotalsInv'
<1>1. Home # 0 /\ sent \in Seq(Record)
  BY QueueTyped DEF SpokenInv, SayingTyped
<1>2. Sound = <<>>
  BY DEF TotalsInv, AudioIsOfTask
<1>3. AudioIsOfTask' /\ SoundCounted' /\ TaskCounted'
  BY <1>1, <1>2 DEF AudioIsOfTask, SoundCounted, TaskCounted, Written, Writing
<1>4. RecordsCounted'
  BY DEF TotalsInv, RecordsCounted, Taking
<1>5. RecordsOfTask'
  BY DEF TotalsInv, RecordsCounted, RecordsOfTask
<1> QED
  BY <1>3, <1>4, <1>5 DEF TotalsInv

LEMMA TaskKeepsConversation ==
    ASSUME SpokenInv, ConversationInv, Held, NEW p \in Pairs, Synthesizes(p)
    PROVE  ConversationInv'
<1>1. RequestsInv /\ TotalsInv /\ CancelInv /\ RecordsCounted
  BY DEF ConversationInv, TotalsInv
<1>2. TaskSteps(p) /\ UNCHANGED <<client, talk, lines, heard>> /\ Bytes' = Bytes
  BY DEF Synthesizes, clientSide, ioVars, Bytes
<1>3. /\ TypedPairs(pairs) /\ TaskStands /\ task \in TaskType /\ sent \in Seq(Record)
      /\ Home \in Pairs /\ talk.id \in Nat /\ task.id \in Nat
  BY QueueTyped DEF SpokenInv, SayingTyped, CrossInv, LifetimeInv
<1>4. Home' = Home
  BY <1>2 DEF Home
<1>5. CASE TaskFails(p)
  <2>1. /\ UNCHANGED <<pairs, session, sent>> /\ task'.pair = 0 /\ task'.id = 0
        /\ task'.place = "done" /\ ~task'.cancelled /\ task.pair = p /\ ~Connected(p)
    BY <1>5, FailingTask
  <2>2. p = Home /\ Queue' = Queue /\ Sound' = Sound
    BY <1>4, <2>1, TaskIsHome DEF Queue, Sound
  <2>3. TotalsInv'
    BY <1>1, <1>2, <1>4, <2>1, <2>2, FailKeepsTotals
  <2>4. RequestsInv'
    <3>1. \A n \in Nat : Uses(n, task'.id, sent', heard', Bytes') =>
                         Uses(n, task.id, sent, heard, Bytes)
      BY <1>2, <2>1 DEF Uses
    <3> QED
      BY <1>1, <1>2, <1>3, <2>2, <3>1, RequestsStay DEF Reached
  <2>5. CancelInv'
    <3>1. \A n : EndedBy(n, sent', lines', heard') <=> Over(n)
      BY <1>2, <2>1 DEF Over
    <3>2. EarlierEnded'
      BY <1>1, <1>2, <3>1 DEF CancelInv, EarlierEnded, Over
    <3> QED
      BY <2>1, <3>2 DEF CancelInv, CancelsHit, CancelledByRight, Over, EndedBy
  <2> QED
    BY <2>3, <2>4, <2>5 DEF ConversationInv
<1>6. CASE Quiet(p) \/ Says(p) \/ Sounds(p)
  <2>1. SameTask /\ UNCHANGED session /\ task.pair = p /\ SameEnds(pairs, pairs')
    BY <1>3, <1>6, QuietTask, SayingTask, SoundingTask, DataRests
  <2>2. p = Home
    BY <2>1, TaskIsHome
  <2>3. Connected(Home)' = Connected(Home)
    BY <1>3, <1>4, <2>1, EndsStay DEF Connected
  <2>4. Queue' = Queue /\ (~Sounds(p) => Sound' = Sound)
    <3>1. CASE Quiet(p)
      BY <1>3, <1>4, <3>1, QuietTask DEF Queue, Sound
    <3>2. CASE Says(p)
      <4>1. pairs'[p].commands = pairs[p].commands /\ pairs'[p].pcm = pairs[p].pcm
        BY <1>3, <3>2, SayingTask DEF DataBut
      <4> QED
        BY <1>4, <2>2, <4>1 DEF Queue, Sound
    <3>3. CASE Sounds(p)
      <4>1. pairs'[p].commands = pairs[p].commands
        BY <1>3, <3>3, SoundingTask DEF DataBut
      <4> QED
        BY <1>4, <2>2, <3>3, <4>1 DEF Queue
    <3> QED
      BY <1>6, <3>1, <3>2, <3>3
  <2>5. sent' = sent \/ \E r \in Record : r.id = task.id /\ sent' = Append(sent, r)
    <3>1. CASE Quiet(p) \/ Sounds(p)
      BY <1>3, <3>1, QuietTask, SoundingTask
    <3>2. CASE Says(p)
      <4>1. PICK event \in {"word_boundary", "sentence_boundary", "synthesis_complete",
                            "synthesis_cancelled", "error"}, bytes \in Nat :
               sent' = Append(sent, [event |-> event, id |-> task.id, bytes |-> bytes])
        BY <1>3, <3>2, SayingTask
      <4>2. [event |-> event, id |-> task.id, bytes |-> bytes] \in Record
        BY <1>3 DEF Record
      <4> QED
        BY <4>1, <4>2
    <3> QED
      BY <1>6, <3>1, <3>2
  <2>6. task'.id = task.id /\ task'.pair = task.pair /\ task'.cancelled = task.cancelled
    BY <2>1 DEF SameTask
  <2>7. RequestsInv'
    <3>1. ASSUME NEW n \in Nat, Uses(n, task'.id, sent', heard', Bytes')
          PROVE  Uses(n, task.id, sent, heard, Bytes)
      <4>1. CASE sent' = sent
        BY <1>2, <2>6, <3>1, <4>1
      <4>2. ASSUME NEW r \in Record, r.id = task.id, sent' = Append(sent, r)
            PROVE  Uses(n, task.id, sent, heard, Bytes)
        <5>1. /\ Len(sent') = Len(sent) + 1 /\ Len(sent) \in Nat
              /\ \A i \in 1 .. Len(sent) : sent'[i] = sent[i]
              /\ sent'[Len(sent) + 1] = r
          BY <1>3, <4>2
        <5>2. \A i \in 1 .. Len(sent') : i \in 1 .. Len(sent) \/ i = Len(sent) + 1
          BY <5>1
        <5>3. (\E i \in 1 .. Len(sent') : sent'[i].id = n) =>
                 (\E i \in 1 .. Len(sent) : sent[i].id = n) \/ n = task.id
          BY <4>2, <5>1, <5>2
        <5> QED
          BY <1>2, <2>6, <3>1, <5>3 DEF Uses
      <4> QED
        BY <2>5, <4>1, <4>2
    <3>2. talk'.id = talk.id /\ Reached \subseteq Reached'
      BY <1>2 DEF Reached
    <3> QED
      BY <1>1, <1>3, <2>4, <3>1, <3>2, RequestsStay
  <2>8. CancelInv'
    <3>1. HistoryGrows
      BY <1>2, <2>5 DEF HistoryGrows
    <3>2. \A n \in Nat : Over(n) => EndedBy(n, sent', lines', heard')
      BY <1>1, <3>1, EndedStays
    <3> QED
      BY <1>1, <1>2, <1>3, <2>1, <2>4, <2>6, <3>2, CancelsStay
  <2>9. TotalsInv'
    BY <1>1, <1>2, <1>4, <1>6, <2>2, <2>3, <2>4, QuietKeepsTotals, SaysKeepsTotals, SoundsKeepsTotals
  <2> QED
    BY <2>7, <2>8, <2>9 DEF ConversationInv
<1> QED
  BY <1>2, <1>5, <1>6, TaskStepIs
-----------------------------------------------------------------------------
(* Around the conversation. *)

\* A talker that has just got its pipes has not said or heard anything.
LEMMA FirstHeld ==
    ASSUME SpokenInv, SpokenInv', NEW c \in Clients, Connects(c), ~Held, Held'
    PROVE  ConversationInv'
<1>1. /\ ConnectSteps(c) /\ UNCHANGED <<session, task, sent, plan, talk>>
      /\ client = [d \in Clients |-> client[d]] /\ Talker \in Clients
  BY PipesAssumption DEF Connects, conversation, SpokenInv, CrossInv, ClientTyped
<1>2. UNCHANGED ioVars /\ \E r : client' = [client EXCEPT ![c] = r]
  BY <1>1 DEF ConnectSteps, BeginConnect, OpensControl, ControlUnavailable, OpensAudio,
     ModeFails, AudioUnavailable, Denied, TriesAgain, GivesUp, LaunchFails, ClientGoes,
     ConnectReturns, AttemptFails
<1>3. c = Talker
  BY <1>1, <1>2 DEF Held
<1>4. ~Gone
  BY <1>1, <1>3 DEF Gone, Is, ConnectSteps, BeginConnect, OpensControl, ControlUnavailable,
     OpensAudio, ModeFails, AudioUnavailable, Denied, TriesAgain, GivesUp, LaunchFails
<1>5. task.place = "none" /\ task.pair = 0 /\ task.id = 0 /\ ~task.cancelled
      /\ \A p \in Pairs : Empty(p)
  BY <1>4 DEF SpokenInv, BeforeTalk, TaskStands
<1>6. NothingSaid
  BY DEF SpokenInv, Silence
<1>7. PipesGo
  BY <1>1, ConnectingGoes DEF SpokenInv
<1>8. \A p \in Pairs : Empty(p)'
  BY <1>5, <1>7, GoingKeepsData DEF SpokenInv
<1>9. Home' \in Pairs /\ Home' # 0
  BY PipesAssumption DEF SpokenInv, HomeStands, Pairs
<1>10. Len(Queue') = 0 /\ Sound' = <<>>
  BY <1>8, <1>9 DEF Empty, Queue, Sound
<1>11. /\ Len(sent') = 0 /\ Len(heard') = 0 /\ Len(Bytes') = 0
       /\ talk'.id = 0
       /\ task'.place = "none" /\ task'.pair = 0 /\ task'.id = 0 /\ ~task'.cancelled
  BY <1>1, <1>2, <1>5, <1>6 DEF NothingSaid, ioVars, NoTalk, Bytes, NoRead, Channels
<1>12. RequestsInv'
  <2>1. OneSpeak' /\ CancelsFollow' /\ Fresh'
    BY <1>10 DEF OneSpeak, CancelsFollow, Fresh
  <2>2. UsedIds'
    BY <1>11 DEF UsedIds, Uses
  <2> QED
    BY <2>1, <2>2 DEF RequestsInv
<1>13. TotalsInv'
  <2>1. AudioIsOfTask' /\ SoundCounted' /\ TaskCounted'
    BY <1>9, <1>10, <1>11 DEF AudioIsOfTask, SoundCounted, TaskCounted, Written, Writing
  <2>2. RecordsCounted' /\ RecordsOfTask'
    BY <1>11 DEF RecordsCounted, RecordsOfTask
  <2> QED
    BY <2>1, <2>2 DEF TotalsInv
<1>14. CancelInv'
  <2>1. EarlierEnded'
    BY <1>11 DEF EarlierEnded
  <2>2. CancelsHit' /\ CancelledByRight'
    BY <1>10, <1>11 DEF CancelsHit, CancelledByRight
  <2> QED
    BY <2>1, <2>2 DEF CancelInv
<1> QED
  BY <1>12, <1>13, <1>14 DEF ConversationInv

\* Only a connection gives the talker its pipes.
LEMMA HeldByConnecting ==
    ASSUME SpokenInv, CrossInv', Next, ~Held, Held'
    PROVE  \E c \in Clients : Connects(c)
<1>1. /\ client = [d \in Clients |-> client[d]] /\ Talker \in Clients
      /\ client[Talker] \in ClientFields(client[Talker])
  BY PipesAssumption DEF SpokenInv, CrossInv, ClientTyped
<1>2. client' # client
  BY DEF Held
<1>3. ASSUME NEW c \in Clients, Launches(c)
      PROVE  FALSE
  <2>1. PICK q : client' = [client EXCEPT ![c].place = "waiting", ![c].own = q]
    BY <1>3 DEF Launches
  <2>2. CASE c # Talker
    BY <1>1, <2>1, <2>2 DEF Held
  <2>3. CASE c = Talker
    <3>1. client'[Talker].place = "waiting"
      BY <1>1, <2>1, <2>3 DEF ClientFields
    <3> QED
      BY <3>1 DEF Held
  <2> QED
    BY <2>2, <2>3
<1>4. ASSUME NEW c \in Clients, Leaves(c)
      PROVE  FALSE
  BY <1>4, LeavesKeepsSpoken
<1>5. ASSUME NEW c \in Clients, Closes(c)
      PROVE  FALSE
  <2>1. CASE c = Talker
    BY <1>5, <2>1 DEF Closes, ClosesHandles, Held, Is
  <2>2. CASE c # Talker
    BY <1>1, <1>5, <2>2 DEF Closes, ClosesHandles, ConnectReturns, Held
  <2> QED
    BY <2>1, <2>2
<1>6. ~Reads
  BY ReadsMove DEF AroundReads
<1>7. ~(AsksInfo \/ GetsInfo \/ SendsSpeak \/ BeginsCancel \/ SendsCancel)
  BY TalkMoves
<1>8. \A q \in Processes : ~Runs(q)
  BY <1>2 DEF Runs, clientSide
<1>9. \A p \in Pairs : ~Loops(p) /\ ~Synthesizes(p)
  BY <1>2 DEF Loops, Synthesizes, clientSide
<1> QED
  BY <1>3, <1>4, <1>5, <1>6, <1>7, <1>8, <1>9 DEF Next

TakesCommand(p) == AnswersQuery(p) \/ RefusesSpeak(p) \/ StartsSpeak(p) \/ HandlesCancel(p)

AroundTalk ==
    /\ PipesGo /\ TaskEnds /\ UNCHANGED <<sent, talk, ioVars>>
    /\ client'[Talker] = client[Talker]

\* A step is of the conversation, or goes on around it.
LEMMA HeldSteps ==
    ASSUME SpokenInv, [Next]_vars, Held, Held'
    PROVE  \/ AroundTalk \/ Reads \/ AsksInfo \/ GetsInfo \/ SendsSpeak \/ BeginsCancel \/ SendsCancel
           \/ \E c \in Clients : Leaves(c)
           \/ \E p \in Pairs : \/ UNCHANGED clientSide /\ TakesCommand(p)
                             \/ Synthesizes(p)
<1>1. /\ client = [d \in Clients |-> client[d]] /\ Talker \in Clients /\ SessionTyped
      /\ task \in TaskType /\ TaskStands
  BY PipesAssumption DEF SpokenInv, CrossInv, ClientTyped, LifetimeInv, SayingTyped
<1>2. SpokenInv' /\ CrossInv'
  BY SpokenStep DEF SpokenInv
<1>3. ASSUME NEW c \in Clients, Connects(c)
      PROVE  AroundTalk
  <2>1. ConnectSteps(c) /\ UNCHANGED <<session, task, sent, talk>>
    BY <1>3 DEF Connects, conversation
  <2>2. UNCHANGED ioVars /\ \E r : client' = [client EXCEPT ![c] = r]
    BY <2>1 DEF ConnectSteps, BeginConnect, OpensControl, ControlUnavailable, OpensAudio,
       ModeFails, AudioUnavailable, Denied, TriesAgain, GivesUp, LaunchFails, ClientGoes,
       ConnectReturns, AttemptFails
  <2>3. c # Talker
    BY <2>1 DEF Held, Is, ConnectSteps, BeginConnect, OpensControl, ControlUnavailable,
       OpensAudio, ModeFails, AudioUnavailable, Denied, TriesAgain, GivesUp, LaunchFails
  <2>4. client'[Talker] = client[Talker]
    BY <1>1, <2>2, <2>3
  <2>5. PipesGo
    BY <2>1, ConnectingGoes DEF SpokenInv
  <2> QED
    BY <2>1, <2>2, <2>4, <2>5 DEF AroundTalk, TaskEnds
<1>4. ASSUME NEW c \in Clients, Launches(c)
      PROVE  AroundTalk
  <2>1. /\ UNCHANGED <<pairs, ioVars, session, task, sent, talk>> /\ Is(c, "launch")
        /\ \E q : client' = [client EXCEPT ![c].place = "waiting", ![c].own = q]
    BY <1>4 DEF Launches, conversation
  <2>2. client'[Talker] = client[Talker]
    BY <1>1, <2>1 DEF Held, Is
  <2> QED
    BY <1>1, <2>1, <2>2, PipesRest DEF AroundTalk, TaskEnds
<1>5. ASSUME NEW c \in Clients, Closes(c)
      PROVE  AroundTalk
  <2>1. c # Talker
    BY <1>2, <1>5, TalkerCloseKeepsSpoken DEF Gone, Held, Is
  <2>2. /\ pairs' = LeftBy(c, pairs) /\ ConnectReturns(c, "closed")
        /\ UNCHANGED <<ioVars, talk, session, task, sent>>
    BY <1>5, <2>1 DEF Closes, ClosesHandles
  <2>3. client'[Talker] = client[Talker]
    BY <1>1, <2>1, <2>2 DEF ConnectReturns
  <2>4. PipesGo
    BY <2>1, <2>2, LeavingGoes DEF SpokenInv
  <2> QED
    BY <2>2, <2>3, <2>4 DEF AroundTalk, TaskEnds
<1>6. ASSUME NEW q \in Processes, Runs(q)
      PROVE  AroundTalk
  <2>1. UNCHANGED <<talk, client, ioVars>>
    BY <1>6 DEF Runs, clientSide
  <2>2. CASE ProcessEnds(q)
    <3>1. PipesGo
      BY <2>2, ExitCloses, ClosingGoes DEF SpokenInv, CrossInv, ProcessEnds
    <3>2. TaskEnds
      BY <2>2, ExitEndsTask DEF SpokenInv, CrossInv
    <3>3. sent' = sent
      BY <2>2 DEF ProcessEnds
    <3> QED
      BY <2>1, <3>1, <3>2, <3>3 DEF AroundTalk
  <2>3. CASE ~ProcessEnds(q)
    <3>1. PipesGo
      BY <1>6, <2>3, ProcessGoes DEF SpokenInv, Runs
    <3>2. UNCHANGED <<task, sent>>
      BY <1>6, <2>3 DEF Runs
    <3> QED
      BY <2>1, <3>1, <3>2 DEF AroundTalk, TaskEnds
  <2> QED
    BY <2>2, <2>3
<1>7. ASSUME NEW p \in Pairs, Loops(p)
       PROVE  AroundTalk \/ (UNCHANGED clientSide /\ TakesCommand(p))
  <2>1. LoopSteps(p) /\ UNCHANGED clientSide /\ UNCHANGED <<talk, client, ioVars>>
    BY <1>7 DEF Loops, clientSide
  <2>2. CASE TakesCommand(p)
    BY <2>1, <2>2
  <2>3. CASE CancelAwaited(p)
    <3>1. session[p] = "cancelling" /\ session' = [session EXCEPT ![p] = "reading"]
          /\ UNCHANGED <<pairs, task, sent>>
      BY <2>3 DEF CancelAwaited
    <3>2. \A x \in Pairs : /\ session[x] # "none" => session'[x] # "none"
                           /\ session[x] = "ended" => session'[x] = "ended"
                           /\ session'[x] # "none" => session[x] # "none"
      BY <1>1, <3>1 DEF SessionTyped
    <3>3. PipesGo
      BY <3>1, <3>2 DEF PipesGo, PipeGoes, Connected
    <3> QED
      BY <2>1, <3>1, <3>3 DEF AroundTalk, TaskEnds
  <2>4. CASE ConversationEnds(p)
    <3>1. PipesGo
      BY <2>4, EndCloses, ClosingGoes DEF SpokenInv, CrossInv, ConversationEnds
    <3>2. TaskEnds
      BY <1>1, <2>4, SessionEndsTask
    <3>3. sent' = sent
      BY <2>4 DEF ConversationEnds
    <3> QED
      BY <2>1, <3>1, <3>2, <3>3 DEF AroundTalk
  <2> QED
    BY <2>1, <2>2, <2>3, <2>4 DEF LoopSteps, TakesCommand
<1>8. CASE UNCHANGED vars
  <2>1. UNCHANGED <<pairs, session, task, sent, talk, ioVars, client>>
    BY <1>8 DEF vars, ioVars
  <2>2. PipesGo
    BY <1>1, <2>1, PipesRest
  <2> QED
    BY <2>1, <2>2 DEF AroundTalk, TaskEnds
<1> QED
  BY <1>3, <1>4, <1>5, <1>6, <1>7, <1>8 DEF Next

LEMMA ConversationStep ==
    ASSUME SpokenInv, ConversationInv, [Next]_vars
    PROVE  ConversationInv'
<1>1. SpokenInv' /\ CrossInv'
  BY SpokenStep DEF SpokenInv
<1>2. CASE ~Held'
  BY <1>2 DEF ConversationInv
<1>3. CASE ~Held /\ Held'
  <2>1. CASE UNCHANGED vars
    BY <1>3, <2>1 DEF vars, Held
  <2>2. CASE Next
    BY <1>1, <1>3, <2>2, FirstHeld, HeldByConnecting
  <2> QED
    BY <2>1, <2>2
<1>4. CASE Held /\ Held'
  <2>1. CASE AroundTalk
    <3>1. Home' = Home /\ Bytes' = Bytes /\ UNCHANGED <<lines, heard>>
      BY <2>1 DEF AroundTalk, Home, Bytes, ioVars
    <3> QED
      BY <1>4, <2>1, <3>1, AroundKeepsConversation DEF AroundTalk
  <2>2. CASE Reads
    BY <2>2, ReadsKeepConversation
  <2>3. CASE AsksInfo \/ GetsInfo \/ SendsSpeak \/ BeginsCancel \/ SendsCancel
    BY <2>3, TalkKeepsConversation
  <2>4. ASSUME NEW c \in Clients, Leaves(c)
        PROVE  ConversationInv'
    <3>1. Home' = Home /\ Bytes' = Bytes
      BY <1>1, <2>4, LeavesKeepsSpoken DEF Bytes, Channels
    <3>2. UNCHANGED <<pairs, session, task, sent, talk, lines, heard>>
      BY <2>4 DEF Leaves, CancelsIo, conversation
    <3>3. PipesGo
      BY <3>2, PipesRest DEF SpokenInv, CrossInv, LifetimeInv
    <3> QED
      BY <1>4, <3>1, <3>2, <3>3, AroundKeepsConversation DEF TaskEnds
  <2>5. ASSUME NEW p \in Pairs, UNCHANGED clientSide, TakesCommand(p)
        PROVE  ConversationInv'
    BY <1>4, <2>5, LoopKeepsConversation DEF TakesCommand
  <2>6. ASSUME NEW p \in Pairs, Synthesizes(p)
        PROVE  ConversationInv'
    BY <1>4, <2>6, TaskKeepsConversation
  <2> QED
    BY <1>4, <2>1, <2>2, <2>3, <2>4, <2>5, <2>6, HeldSteps
<1> QED
  BY <1>2, <1>3, <1>4

\* The talker has no pipes at first, and has asked and said nothing.
LEMMA NotHeldAtFirst == Init => ~Held
<1> SUFFICES ASSUME Init
             PROVE  ~Held
  OBVIOUS
<1>1. Talker \in Clients /\ client = [c \in Clients |-> NoHandles]
  BY PipesAssumption DEF Init, ClientInit
<1> QED
  BY <1>1 DEF NoHandles, Held

LEMMA ConversationAtFirst == Init => ConversationInv
  BY NotHeldAtFirst DEF ConversationInv

\* What is said of the totals while the talker holds its pipes.
LEMMA TotalsHeld ==
    ASSUME SpokenInv, TotalsInv, Held
    PROVE  TotalsMatchAudio
<1>1. sent \in Seq(Record) /\ DOMAIN sent = 1 .. Len(sent)
  BY DEF SpokenInv, SayingTyped
<1>2. \A n : TakenOf(n) = Taking(n)
  BY DEF TakenOf, HalvesOf, Taking, Both, Bytes
<1>3. CompletedTotalExact
  BY <1>1, <1>2 DEF CompletedTotalExact, TotalsInv, RecordsOfTask
<1>4. CancelledTotalWithinOneBuffer
  BY <1>1, <1>2 DEF CancelledTotalWithinOneBuffer, TotalsInv, RecordsCounted
<1>5. NoAudioAfterCancelAck
  <2> SUFFICES ASSUME NEW i \in DOMAIN sent, sent[i].event = "synthesis_cancelled",
                      NEW p \in Pairs, sent[i].id \in Range(pairs[p].pcm)
               PROVE  FALSE
    BY DEF NoAudioAfterCancelAck
  <2>1. PICK j \in DOMAIN pairs[p].pcm : pairs[p].pcm[j] = sent[i].id
    BY DEF Range
  <2>2. pairs[p].pcm \in Seq(Nat) /\ j \in 1 .. Len(pairs[p].pcm) /\ pairs[p].pcm # <<>>
    BY <2>1 DEF SpokenInv, DataTyped
  <2>3. p = Home
    BY <2>2 DEF SpokenInv, AtHome, Empty
  <2>4. task.place \in {"write", "flushing"} /\ sent[i].id = task.id
    BY <2>1, <2>2, <2>3 DEF TotalsInv, AudioIsOfTask, Sound
  <2> QED
    BY <1>1, <2>4 DEF TotalsInv, RecordsOfTask
<1> QED
  BY <1>3, <1>4, <1>5 DEF TotalsMatchAudio

\* What the provider says of its audio is what the audio pipe brought, for every plan,
\* every number of clients, processes and pairs, and every buffer size: a request that
\* ran to its end announced all of it, synthesis_cancelled leaves out a part of one buffer
\* at most, and nothing of a cancelled request comes after it (MockSynthesis::Run,
\* PipeClient::ReadAudio).
THEOREM TotalsMatchAudioHolds == Spec => []TotalsMatchAudio
<1>1. Init => SpokenInv /\ ConversationInv
  BY SpokenAtFirst, ConversationAtFirst
<1>2. SpokenInv /\ ConversationInv /\ [Next]_vars => (SpokenInv /\ ConversationInv)'
  BY SpokenStep, ConversationStep
<1>3. SpokenInv /\ ConversationInv => TotalsMatchAudio
  <2> SUFFICES ASSUME SpokenInv, ConversationInv
               PROVE  TotalsMatchAudio
    OBVIOUS
  <2>1. CASE Held
    BY <2>1, TotalsHeld DEF ConversationInv
  <2>2. CASE ~Held
    <3>1. sent = <<>>
      BY <2>2 DEF SpokenInv, Silence, NothingSaid
    <3>2. DOMAIN sent = {}
      BY <3>1
    <3> QED
      BY <3>2 DEF TotalsMatchAudio, CompletedTotalExact, CancelledTotalWithinOneBuffer,
                  NoAudioAfterCancelAck
  <2> QED
    BY <2>1, <2>2
<1> QED
  BY <1>1, <1>2, <1>3, PTL DEF Spec

\* Although the handler of "cancel" does not look at the number, a request the engine
\* still waits for is cancelled by a cancel of its own, by the end of its session, or by a
\* cancel that was late: begun under the mutex for an earlier request and sent after this
\* one (SpeechWorker.cpp, BeginCancellationLocked and SendCancellation).  So it is for
\* every plan and every number of clients, processes and pairs.
THEOREM CancelHitsItsRequestHolds == Spec => []CancelHitsItsRequest
<1>1. Init => SpokenInv /\ ConversationInv
  BY SpokenAtFirst, ConversationAtFirst
<1>2. SpokenInv /\ ConversationInv /\ [Next]_vars => (SpokenInv /\ ConversationInv)'
  BY SpokenStep, ConversationStep
<1>3. SpokenInv /\ ConversationInv => CancelHitsItsRequest
  <2> SUFFICES ASSUME SpokenInv, ConversationInv, Talking, task.cancelled, ~Ended(task.id)
               PROVE  task.id \in Reached \/ session[task.pair] = "ended"
    BY DEF CancelHitsItsRequest, Reached
  <2>1. CancelledByRight
    BY ReadIsHeld DEF ConversationInv, CancelInv
  <2>2. ~Over(task.id)
    BY EndedIs DEF SpokenInv, SayingTyped
  <2> QED
    BY <2>1, <2>2 DEF CancelledByRight
<1> QED
  BY <1>1, <1>2, <1>3, PTL DEF Spec
-----------------------------------------------------------------------------
(* The framing of the control stream.                                      *)

Width(event) == IF event = "error" THEN 8 ELSE 1

\* The bytes a + 1 to b of u are record k, whose text has w bytes, and its line ending.
RecordIn(u, a, b, k, w) ==
    /\ b = a + w + 1 \/ b = a + w + 2
    /\ \A i \in 1 .. w : u[a + i] = TextOf(k)
    /\ b = a + w + 2 => u[a + w + 1] = CR
    /\ u[b] = LF

\* c cuts u into pieces that lie one behind the other.
Cuts(c, u, n, m) ==
    /\ c \in [Nat -> Int] /\ c[n] = 0 /\ c[m] = Len(u)
    /\ \A j \in n .. m : \A k \in n .. m : j <= k => c[j] <= c[k]

\* Cut in this way u is the records of s from n + 1 on.
FramedBy(c, u, n, s) ==
    /\ n <= Len(s) /\ Cuts(c, u, n, Len(s))
    /\ \A k \in n + 1 .. Len(s) : RecordIn(u, c[k - 1], c[k], k, Width(s[k].event))

Framed(u, n, s) == \E c : FramedBy(c, u, n, s)

LEMMA WidthIs ==
    ASSUME NEW k \in Nat, NEW event
    PROVE  /\ Width(event) \in Nat /\ Width(event) >= 1
           /\ Text(k, event) \in Seq(Nat) /\ Len(Text(k, event)) = Width(event)
           /\ \A i \in 1 .. Width(event) : Text(k, event)[i] = TextOf(k)
           /\ TextOf(k) \in Nat /\ TextOf(k) >= 32
<1>1. Width(event) \in Nat /\ Width(event) >= 1
  BY DEF Width
<1>2. Text(k, event) = [i \in 1 .. Width(event) |-> TextOf(k)] /\ TextOf(k) \in Nat /\ TextOf(k) >= 32
  BY DEF Text, Width, TextOf
<1> DEFINE w == Width(event)
           x == TextOf(k)
           t == [i \in 1 .. w |-> x]
<1>3. w \in Nat /\ x \in Nat
  BY <1>1, <1>2
<1> HIDE DEF w, x
<1>4. t \in [1 .. w -> Nat]
  BY <1>3
<1>5. t \in Seq(Nat) /\ Len(t) = w /\ \A i \in 1 .. w : t[i] = x
  BY <1>3, <1>4
<1> QED
  BY <1>1, <1>2, <1>5 DEF w, x

\* A record stays where it is when bytes come behind it.
LEMMA RecordStays ==
    ASSUME NEW u \in Seq(Nat), NEW t \in Seq(Nat), Len(u) <= Len(t),
           \A i \in 1 .. Len(u) : t[i] = u[i],
           NEW a \in Nat, NEW b \in Nat, b <= Len(u), NEW k, NEW w \in Nat,
           RecordIn(u, a, b, k, w)
    PROVE  RecordIn(t, a, b, k, w)
<1>1. a + w + 1 <= b
  BY DEF RecordIn
<1>2. \A i \in 1 .. w : t[a + i] = u[a + i]
  <2> TAKE i \in 1 .. w
  <2>1. a + i \in 1 .. Len(u)
    <3>1. 1 <= a + i /\ a + i <= b /\ a + i \in Nat
      BY <1>1
    <3>2. a + i <= Len(u)
      BY <3>1
    <3> QED
      BY <3>1, <3>2
  <2> QED
    BY <2>1
<1>3. t[a + w + 1] = u[a + w + 1] /\ t[b] = u[b]
  <2>1. a + w + 1 \in 1 .. Len(u) /\ b \in 1 .. Len(u)
    BY <1>1
  <2> QED
    BY <2>1
<1> QED
  BY <1>2, <1>3 DEF RecordIn

\* The cuts lie in the sequence.
LEMMA CutsLie ==
    ASSUME NEW u \in Seq(Nat), NEW n \in Nat, NEW m \in Nat, n <= m, NEW c, Cuts(c, u, n, m)
    PROVE  \A k \in n .. m : c[k] \in Nat /\ c[k] <= Len(u)
<1> TAKE k \in n .. m
<1>1. n \in n .. m /\ m \in n .. m /\ n <= k /\ k <= m /\ k \in Nat
  OBVIOUS
<1>2. c[k] \in Int /\ c[n] = 0 /\ c[m] = Len(u) /\ c[n] <= c[k] /\ c[k] <= c[m]
  BY <1>1 DEF Cuts
<1> QED
  BY <1>2

\* A record that is written comes behind the others.
LEMMA FramedGrows ==
    ASSUME NEW u \in Seq(Nat), NEW n \in Nat, NEW s \in Seq(Record), NEW r \in Record,
           Framed(u, n, s), NEW t \in Seq(Nat), Len(u) <= Len(t),
           \A i \in 1 .. Len(u) : t[i] = u[i],
           RecordIn(t, Len(u), Len(t), Len(s) + 1, Width(r.event))
    PROVE  Framed(t, n, Append(s, r))
<1> DEFINE m == Len(s)
           q == Append(s, r)
<1>1. PICK c : FramedBy(c, u, n, s)
  BY DEF Framed
<1>2. m \in Nat /\ n <= m /\ Cuts(c, u, n, m) /\ Len(u) \in Nat /\ Len(t) \in Nat
  BY <1>1 DEF FramedBy
<1>3. Len(q) = m + 1 /\ q[m + 1] = r /\ \A k \in 1 .. m : q[k] = s[k]
  OBVIOUS
<1>4. \A k \in n + 1 .. m : RecordIn(u, c[k - 1], c[k], k, Width(s[k].event))
  BY <1>1 DEF FramedBy
<1> HIDE DEF m, q
<1> DEFINE d == [k \in Nat |-> IF k = m + 1 THEN Len(t) ELSE c[k]]
<1>5. c \in [Nat -> Int] /\ c[n] = 0 /\ c[m] = Len(u)
      /\ \A j \in n .. m : \A k \in n .. m : j <= k => c[j] <= c[k]
  BY <1>2 DEF Cuts
<1>6. /\ d \in [Nat -> Int] /\ d[m + 1] = Len(t)
      /\ \A k \in n .. m : d[k] = c[k]
  BY <1>2, <1>5
<1> HIDE DEF d
<1>7. \A k \in n .. m : c[k] \in Nat /\ c[k] <= Len(u)
  BY <1>2, CutsLie
<1>8. n \in n .. m /\ m \in n .. m
  BY <1>2
<1>9. d[n] = 0 /\ d[m] = Len(u)
  BY <1>5, <1>6, <1>8
<1>10. Cuts(d, t, n, m + 1)
  <2> SUFFICES ASSUME NEW j \in n .. m + 1, NEW k \in n .. m + 1, j <= k
               PROVE  d[j] <= d[k]
    BY <1>6, <1>9 DEF Cuts
  <2>1. CASE k = m + 1 /\ j = m + 1
    BY <1>2, <1>6, <2>1
  <2>2. CASE k = m + 1 /\ j # m + 1
    <3>1. j \in n .. m
      BY <1>2, <2>2
    <3>2. d[j] \in Nat /\ d[j] <= Len(u)
      BY <1>6, <1>7, <3>1
    <3> QED
      BY <1>2, <1>6, <2>2, <3>2
  <2>3. CASE k # m + 1
    <3>1. j \in n .. m /\ k \in n .. m
      BY <1>2, <2>3
    <3> QED
      BY <1>5, <1>6, <3>1
  <2> QED
    BY <2>1, <2>2, <2>3
<1>11. ASSUME NEW k \in n + 1 .. m + 1
       PROVE  RecordIn(t, d[k - 1], d[k], k, Width(q[k].event))
  <2>1. CASE k = m + 1
    <3>1. k - 1 = m
      BY <1>2, <2>1
    <3> QED
      BY <1>3, <1>6, <1>9, <2>1, <3>1 DEF m
  <2>2. CASE k # m + 1
    <3>1. k \in n + 1 .. m /\ k - 1 \in n .. m /\ k \in n .. m /\ k \in 1 .. m
      BY <1>2, <2>2
    <3>2. d[k - 1] = c[k - 1] /\ d[k] = c[k] /\ q[k] = s[k]
      BY <1>3, <1>6, <3>1
    <3>3. c[k - 1] \in Nat /\ c[k] \in Nat /\ c[k] <= Len(u)
      BY <1>7, <3>1
    <3>4. RecordIn(u, c[k - 1], c[k], k, Width(s[k].event))
      BY <1>4, <3>1
    <3>5. Width(s[k].event) \in Nat
      BY DEF Width
    <3> QED
      BY <3>2, <3>3, <3>4, <3>5, RecordStays
  <2> QED
    BY <2>1, <2>2
<1>12. n <= Len(q)
  BY <1>2, <1>3
<1>13. FramedBy(d, t, n, q)
  BY <1>3, <1>10, <1>11, <1>12 DEF FramedBy
<1> QED
  BY <1>13 DEF Framed, q

\* What a record writes on the pipe.
LEMMA WritesRecord ==
    ASSUME NEW u \in Seq(Nat), NEW k \in Nat, NEW event, NEW end \in {<<LF>>, <<CR, LF>>},
           NEW t, t = u \o (Text(k, event) \o end)
    PROVE  /\ t \in Seq(Nat) /\ Len(u) <= Len(t) /\ \A i \in 1 .. Len(u) : t[i] = u[i]
           /\ RecordIn(t, Len(u), Len(t), k, Width(event))
<1> DEFINE w == Width(event)
           x == Text(k, event)
           v == x \o end
<1>1. /\ w \in Nat /\ x \in Seq(Nat) /\ Len(x) = w /\ \A i \in 1 .. w : x[i] = TextOf(k)
      /\ Len(u) \in Nat
  <2>1. /\ Width(event) \in Nat /\ Text(k, event) \in Seq(Nat)
        /\ Len(Text(k, event)) = Width(event)
        /\ \A i \in 1 .. Width(event) : Text(k, event)[i] = TextOf(k)
    BY WidthIs
  <2>2. Len(u) \in Nat
    OBVIOUS
  <2> QED
    BY <2>1, <2>2
<1>2. /\ end \in Seq(Nat) /\ Len(end) \in {1, 2} /\ end[Len(end)] = LF
      /\ Len(end) = 2 => end[1] = CR
  <2>1. CASE end = <<LF>>
    <3>1. Len(end) = 1 /\ end[1] = LF /\ end \in Seq(Nat)
      BY <2>1 DEF LF
    <3> QED
      BY <3>1
  <2>2. CASE end = <<CR, LF>>
    <3>1. Len(end) = 2 /\ end[1] = CR /\ end[2] = LF /\ end \in Seq(Nat)
      BY <2>2 DEF LF, CR
    <3> QED
      BY <3>1
  <2> QED
    BY <2>1, <2>2
<1>3. t = u \o v
  OBVIOUS
<1> HIDE DEF w, x
<1>4. /\ v \in Seq(Nat) /\ Len(v) = w + Len(end)
      /\ \A i \in 1 .. w : v[i] = x[i]
      /\ v[w + 1] = end[1] /\ v[w + Len(end)] = end[Len(end)]
  <2> DEFINE l == Len(end)
  <2>0. l \in Nat /\ l >= 1
    <3>1. Len(end) = 1 \/ Len(end) = 2
      BY <1>2
    <3> HIDE DEF l
    <3>2. l = 1 \/ l = 2
      BY <3>1 DEF l
    <3> QED
      BY <3>2
  <2>1. /\ v \in Seq(Nat) /\ Len(v) = w + l
        /\ \A i \in 1 .. w + l : v[i] = IF i <= w THEN x[i] ELSE end[i - w]
    BY <1>1, <1>2, ConcatProperties, SMTT(40)
  <2> HIDE DEF v, l
  <2>2. w + 1 \in 1 .. w + l /\ w + l \in 1 .. w + l /\ (w + 1) - w = 1 /\ (w + l) - w = l
        /\ ~(w + 1 <= w) /\ ~(w + l <= w)
    BY <1>1, <2>0
  <2>3. v[w + 1] = end[1] /\ v[w + l] = end[l]
    BY <2>1, <2>2
  <2>4. \A i \in 1 .. w : i \in 1 .. w + l /\ i <= w
    BY <1>1, <2>0
  <2>5. \A i \in 1 .. w : v[i] = x[i]
    BY <2>1, <2>4
  <2> QED
    BY <2>1, <2>3, <2>5 DEF l
<1> HIDE DEF v
<1>5. /\ t \in Seq(Nat) /\ Len(t) = Len(u) + Len(v)
      /\ \A i \in 1 .. Len(u) + Len(v) : t[i] = IF i <= Len(u) THEN u[i] ELSE v[i - Len(u)]
  <2>1. v \in Seq(Nat)
    BY <1>4
  <2>2. /\ u \o v \in Seq(Nat) /\ Len(u \o v) = Len(u) + Len(v)
        /\ \A i \in 1 .. Len(u) + Len(v) :
              (u \o v)[i] = IF i <= Len(u) THEN u[i] ELSE v[i - Len(u)]
    BY <2>1, ConcatProperties
  <2> QED
    BY <1>3, <2>2
<1>6. \A i \in 1 .. Len(u) : t[i] = u[i]
  <2>1. \A i \in 1 .. Len(u) : i \in 1 .. Len(u) + Len(v) /\ i <= Len(u)
    BY <1>1, <1>4, SMTT(40)
  <2> QED
    BY <1>5, <2>1
<1>7. \A i \in 1 .. Len(v) : t[Len(u) + i] = v[i]
  <2> TAKE i \in 1 .. Len(v)
  <2>1. Len(u) + i \in 1 .. Len(u) + Len(v) /\ ~(Len(u) + i <= Len(u)) /\ (Len(u) + i) - Len(u) = i
    BY <1>1, <1>4, SMTT(40)
  <2> QED
    BY <1>5, <2>1
<1>8. \A i \in 1 .. w : t[Len(u) + i] = TextOf(k)
  <2> TAKE i \in 1 .. w
  <2>1. i \in 1 .. Len(v)
    BY <1>1, <1>2, <1>4
  <2> QED
    BY <1>1, <1>4, <1>7, <2>1, ZenonT(40)
<1>9. Len(t) = Len(u) + w + 1 \/ Len(t) = Len(u) + w + 2
  <2>1. CASE Len(end) = 1
    BY <1>1, <1>4, <1>5, <2>1
  <2>2. CASE Len(end) = 2
    BY <1>1, <1>4, <1>5, <2>2
  <2> QED
    BY <1>2, <2>1, <2>2
<1>10. t[Len(t)] = LF
  <2>1. Len(v) \in 1 .. Len(v)
    BY <1>1, <1>2, <1>4
  <2> QED
    BY <1>2, <1>4, <1>5, <1>7, <2>1
<1>11. Len(t) = Len(u) + w + 2 => t[Len(u) + w + 1] = CR
  <2> SUFFICES ASSUME Len(t) = Len(u) + w + 2
               PROVE  t[Len(u) + w + 1] = CR
    OBVIOUS
  <2>1. Len(end) = 2 /\ w + 1 \in 1 .. Len(v) /\ Len(u) + (w + 1) = Len(u) + w + 1
    BY <1>1, <1>2, <1>4, <1>5
  <2> QED
    BY <1>2, <1>4, <1>7, <2>1
<1>12. RecordIn(t, Len(u), Len(t), k, w)
  BY <1>8, <1>9, <1>10, <1>11 DEF RecordIn
<1>13. Len(u) <= Len(t)
  BY <1>1, <1>4, <1>5
<1> QED
  BY <1>5, <1>6, <1>12, <1>13 DEF w

\* A record stays a record when the bytes before it are gone.
LEMMA RecordShifts ==
    ASSUME NEW u \in Seq(Nat), NEW t \in Seq(Nat), NEW j \in Nat, Len(t) = Len(u) - j,
           \A i \in 1 .. Len(t) : t[i] = u[j + i],
           NEW a \in Nat, NEW b \in Nat, j <= a, b <= Len(u), NEW k, NEW w \in Nat,
           RecordIn(u, a, b, k, w)
    PROVE  RecordIn(t, a - j, b - j, k, w)
<1>1. a + w + 1 <= b /\ (b = a + w + 1 \/ b = a + w + 2)
  BY DEF RecordIn
<1>2. \A i \in 1 .. w : t[(a - j) + i] = u[a + i]
  <2> TAKE i \in 1 .. w
  <2>1. (a - j) + i \in 1 .. Len(t) /\ j + ((a - j) + i) = a + i
    BY <1>1
  <2> QED
    BY <2>1
<1>3. t[(a - j) + w + 1] = u[a + w + 1] /\ t[b - j] = u[b]
  <2> DEFINE x == (a - j) + w + 1
             y == b - j
             xu == a + w + 1
  <2>1. /\ x \in 1 .. Len(t) /\ j + x = xu
        /\ y \in 1 .. Len(t) /\ j + y = b
    BY <1>1
  <2> HIDE DEF x, y, xu
  <2>2. t[x] = u[xu] /\ t[y] = u[b]
    BY <2>1
  <2> QED
    BY <2>2 DEF x, y, xu
<1>4. /\ b - j = (a - j) + w + 1 \/ b - j = (a - j) + w + 2
      /\ b - j = (a - j) + w + 2 => b = a + w + 2
  BY <1>1
<1>5. /\ \A i \in 1 .. w : u[a + i] = TextOf(k)
      /\ b = a + w + 2 => u[a + w + 1] = CR
      /\ u[b] = LF
  BY DEF RecordIn
<1> QED
  BY <1>2, <1>3, <1>4, <1>5 DEF RecordIn

\* The text of a record, whichever its line ending.
LEMMA TextTrimmed ==
    ASSUME NEW k \in Nat, NEW event, NEW line \in Seq(Nat),
           \/ Len(line) = Width(event)
           \/ Len(line) = Width(event) + 1 /\ line[Width(event) + 1] = CR,
           \A i \in 1 .. Width(event) : line[i] = TextOf(k)
    PROVE  TrimCR(line) = Text(k, event)
<1> DEFINE w == Width(event)
           x == Text(k, event)
<1>1. /\ w \in Nat /\ w >= 1 /\ x \in Seq(Nat) /\ Len(x) = w
      /\ \A i \in 1 .. w : x[i] = TextOf(k)
      /\ TextOf(k) >= 32 /\ TextOf(k) \in Nat
  BY WidthIs
<1>2. \/ Len(line) = w
      \/ Len(line) = w + 1 /\ line[w + 1] = CR
  OBVIOUS
<1>3. \A i \in 1 .. w : line[i] = TextOf(k)
  OBVIOUS
<1> HIDE DEF w, x
<1>4. line # <<>>
  BY <1>1, <1>2
<1>5. CASE Len(line) = w
  <2>1. line[Len(line)] # CR
    BY <1>1, <1>3, <1>5 DEF CR
  <2>2. TrimCR(line) = line
    BY <2>1 DEF TrimCR
  <2>3. \A i \in 1 .. Len(line) : line[i] = x[i]
    BY <1>1, <1>3, <1>5
  <2>4. line = x
    BY <1>1, <1>5, <2>3, SeqEqual
  <2> QED
    BY <2>2, <2>4 DEF x
<1>6. CASE Len(line) = w + 1 /\ line[w + 1] = CR
  <2>1. TrimCR(line) = SubSeq(line, 1, Len(line) - 1)
    BY <1>4, <1>6 DEF TrimCR
  <2>2. Len(line) - 1 = w
    BY <1>1, <1>6
  <2>3. \A i \in 1 .. w : line[i] \in Nat
    BY <1>1, <1>3
  <2> DEFINE y == SubSeq(line, 1, w)
  <2>4. y \in Seq(Nat) /\ Len(y) = w /\ \A i \in 1 .. w : y[i] = line[i]
    BY <1>1, <1>6
  <2> HIDE DEF y
  <2>5. \A i \in 1 .. Len(y) : y[i] = x[i]
    BY <1>1, <1>3, <2>4
  <2>6. y = x
    BY <1>1, <2>4, <2>5, SeqEqual
  <2> QED
    BY <2>1, <2>2, <2>6 DEF x, y
<1> QED
  BY <1>2, <1>5, <1>6

\* Up to the first line feed lies the next record, behind it the others.
LEMMA NextRecord ==
    ASSUME NEW u \in Seq(Nat), NEW n \in Nat, NEW s \in Seq(Record), Framed(u, n, s),
           NEW j \in 1 .. Len(u), u[j] = LF, \A i \in 1 .. j - 1 : u[i] # LF,
           NEW line \in Seq(Nat), Len(line) = j - 1, \A i \in 1 .. j - 1 : line[i] = u[i],
           NEW t \in Seq(Nat), Len(t) = Len(u) - j, \A i \in 1 .. Len(t) : t[i] = u[j + i]
    PROVE  /\ n + 1 <= Len(s) /\ TrimCR(line) = Text(n + 1, s[n + 1].event)
           /\ Framed(t, n + 1, s)
<1> DEFINE m == Len(s)
<1>1. PICK c : FramedBy(c, u, n, s)
  BY DEF Framed
<1>2. m \in Nat /\ n <= m /\ Cuts(c, u, n, m) /\ Len(u) \in Nat /\ Len(t) \in Nat
  BY <1>1 DEF FramedBy
<1>3. \A k \in n + 1 .. m : RecordIn(u, c[k - 1], c[k], k, Width(s[k].event))
  BY <1>1 DEF FramedBy
<1> HIDE DEF m
<1>4. c \in [Nat -> Int] /\ c[n] = 0 /\ c[m] = Len(u)
      /\ \A i \in n .. m : \A k \in n .. m : i <= k => c[i] <= c[k]
  BY <1>2 DEF Cuts
<1>5. \A k \in n .. m : c[k] \in Nat /\ c[k] <= Len(u)
  BY <1>2, CutsLie
<1>6. n < m
  BY <1>2, <1>4
<1>7. n + 1 \in n + 1 .. m /\ (n + 1) - 1 = n /\ n + 1 \in n .. m /\ m \in n .. m
  BY <1>2, <1>6
<1> DEFINE w == Width(s[n + 1].event)
           b == c[n + 1]
<1> HIDE DEF w, b
<1>8. /\ w \in Nat /\ w >= 1 /\ TextOf(n + 1) \in Nat /\ TextOf(n + 1) >= 32
      /\ n + 1 \in Nat /\ j \in Nat
  <2>1. n + 1 \in Nat /\ j \in Nat
    OBVIOUS
  <2>2. Width(s[n + 1].event) \in Nat /\ Width(s[n + 1].event) >= 1
    BY DEF Width
  <2>3. TextOf(n + 1) \in Nat /\ TextOf(n + 1) >= 32
    BY DEF TextOf
  <2> QED
    BY <2>1, <2>2, <2>3 DEF w
<1>9. RecordIn(u, 0, b, n + 1, w) /\ b \in Nat /\ b <= Len(u)
  BY <1>3, <1>4, <1>5, <1>7 DEF w, b
<1>10. /\ b = w + 1 \/ b = w + 2
       /\ \A i \in 1 .. w : u[i] = TextOf(n + 1)
       /\ b = w + 2 => u[w + 1] = CR
       /\ u[b] = LF
  <2>1. /\ b = 0 + w + 1 \/ b = 0 + w + 2
        /\ \A i \in 1 .. w : u[0 + i] = TextOf(n + 1)
        /\ b = 0 + w + 2 => u[0 + w + 1] = CR
        /\ u[b] = LF
    BY <1>9 DEF RecordIn
  <2>2. 0 + w + 1 = w + 1 /\ 0 + w + 2 = w + 2
    BY <1>8
  <2>3. \A i \in 1 .. w : 0 + i = i
    BY <1>8
  <2> QED
    BY <2>1, <2>2, <2>3
<1>11. j = b
  <2>1. ~(b < j)
    <3> SUFFICES ASSUME b < j PROVE FALSE
      OBVIOUS
    <3>1. b \in 1 .. j - 1
      BY <1>8, <1>9, <1>10
    <3> QED
      BY <1>10, <3>1
  <2>2. ~(j < b)
    <3> SUFFICES ASSUME j < b PROVE FALSE
      OBVIOUS
    <3>1. CASE j \in 1 .. w
      BY <1>8, <1>10, <3>1 DEF LF
    <3>2. CASE ~(j \in 1 .. w)
      <4>1. j = w + 1 /\ b = w + 2
        BY <1>8, <1>10, <3>2
      <4>2. u[w + 1] = CR
        BY <1>10, <4>1
      <4>3. u[w + 1] = LF
        BY <4>1
      <4> QED
        BY <4>2, <4>3 DEF LF, CR
    <3> QED
      BY <3>1, <3>2
  <2> QED
    BY <1>9, <2>1, <2>2
<1>12. \A i \in 1 .. w : line[i] = TextOf(n + 1)
  <2> TAKE i \in 1 .. w
  <2>1. i \in 1 .. j - 1
    BY <1>8, <1>10, <1>11
  <2> QED
    BY <1>10, <2>1
<1>13. Len(line) = w \/ (Len(line) = w + 1 /\ line[w + 1] = CR)
  <2>1. CASE b = w + 1
    BY <1>8, <1>11, <2>1
  <2>2. CASE b = w + 2
    <3>1. w + 1 \in 1 .. j - 1 /\ Len(line) = w + 1
      BY <1>8, <1>11, <2>2
    <3> QED
      BY <1>10, <2>2, <3>1
  <2> QED
    BY <1>10, <2>1, <2>2
<1>14. TrimCR(line) = Text(n + 1, s[n + 1].event)
  BY <1>8, <1>12, <1>13, TextTrimmed DEF w
<1> DEFINE d == [k \in Nat |-> c[k] - j]
<1>15. d \in [Nat -> Int] /\ \A k \in n + 1 .. m : d[k] = c[k] - j
  <2>1. \A k \in Nat : c[k] - j \in Int
    <3> TAKE k \in Nat
    <3>1. c[k] \in Int
      BY <1>4
    <3>2. j \in Int
      BY <1>8
    <3> QED
      BY <3>1, <3>2
  <2>2. \A k \in n + 1 .. m : k \in Nat
    BY <1>8
  <2> QED
    BY <2>1, <2>2
<1> HIDE DEF d
<1>16. \A k \in n + 1 .. m : k \in n .. m /\ j <= c[k] /\ c[k] \in Nat /\ c[k] <= Len(u)
  <2> TAKE k \in n + 1 .. m
  <2>1. k \in n .. m /\ n + 1 <= k
    BY <1>2
  <2>2. b <= c[k]
    BY <1>4, <1>7, <2>1 DEF b
  <2> QED
    BY <1>5, <1>11, <2>1, <2>2
<1>17. Cuts(d, t, n + 1, m)
  <2>1. d[n + 1] = 0
    <3>1. n + 1 \in n + 1 .. m
      BY <1>2, <1>6
    <3>2. d[n + 1] = c[n + 1] - j
      BY <1>15, <3>1
    <3>3. c[n + 1] = j
      BY <1>11 DEF b
    <3>4. j - j = 0
      BY <1>8
    <3> QED
      BY <3>2, <3>3, <3>4
  <2>2. d[m] = Len(t)
    <3>1. m \in n + 1 .. m
      BY <1>2, <1>6
    <3> QED
      BY <1>4, <1>15, <3>1
  <2> SUFFICES ASSUME NEW i \in n + 1 .. m, NEW k \in n + 1 .. m, i <= k
               PROVE  d[i] <= d[k]
    BY <1>15, <2>1, <2>2 DEF Cuts
  <2>3. c[i] <= c[k] /\ c[i] \in Nat /\ c[k] \in Nat
    BY <1>4, <1>16
  <2>4. d[i] = c[i] - j /\ d[k] = c[k] - j
    BY <1>15
  <2>5. j \in Int
    BY <1>8
  <2> DEFINE x == c[i]
             y == c[k]
  <2> HIDE DEF x, y
  <2>6. x <= y /\ x \in Nat /\ y \in Nat
    BY <2>3 DEF x, y
  <2>7. x - j <= y - j
    BY <2>5, <2>6
  <2> QED
    BY <2>4, <2>7 DEF x, y
<1>18. ASSUME NEW k \in (n + 1) + 1 .. m
       PROVE  RecordIn(t, d[k - 1], d[k], k, Width(s[k].event))
  <2>1. k \in n + 1 .. m /\ k - 1 \in n + 1 .. m
    BY <1>2
  <2>2. d[k - 1] = c[k - 1] - j /\ d[k] = c[k] - j
    BY <1>15, <2>1
  <2>3. RecordIn(u, c[k - 1], c[k], k, Width(s[k].event))
    BY <1>3, <2>1
  <2>4. c[k - 1] \in Nat /\ j <= c[k - 1] /\ c[k] \in Nat /\ c[k] <= Len(u)
    BY <1>16, <2>1
  <2>5. Width(s[k].event) \in Nat
    BY DEF Width
  <2> DEFINE a == c[k - 1]
             e == c[k]
             x == Width(s[k].event)
  <2>6. RecordIn(u, a, e, k, x) /\ a \in Nat /\ j <= a /\ e \in Nat /\ e <= Len(u) /\ x \in Nat
    BY <2>3, <2>4, <2>5
  <2> HIDE DEF a, e, x
  <2>7. RecordIn(t, a - j, e - j, k, x)
    BY <1>8, <2>6, RecordShifts
  <2> QED
    BY <2>2, <2>7 DEF a, e, x
<1>19. n + 1 <= m
  BY <1>2, <1>6
<1>20. FramedBy(d, t, n + 1, s)
  BY <1>17, <1>18, <1>19 DEF FramedBy, m
<1> QED
  BY <1>14, <1>19, <1>20 DEF Framed, m
-----------------------------------------------------------------------------
(* The buffer of the control stream.                                       *)

\* What of a buffer has not been cut into lines.
RestOf(b) == SubSeq(b.buffer, b.readOffset + 1, Len(b.buffer))

\* The offsets stand in their order, and no line feed lies between them.
OffsetsStand(b) ==
    /\ b.readOffset <= b.searchOffset /\ b.searchOffset <= Len(b.buffer)
    /\ \A i \in b.readOffset + 1 .. b.searchOffset : b.buffer[i] # LF
    /\ b.readOffset < CompactAt

LEMMA RestIs ==
    ASSUME NEW b \in StreamType, b.readOffset <= Len(b.buffer)
    PROVE  /\ RestOf(b) \in Seq(Nat) /\ Len(RestOf(b)) = UnconsumedBytes(b)
           /\ UnconsumedBytes(b) = Len(b.buffer) - b.readOffset /\ UnconsumedBytes(b) \in Nat
           /\ \A i \in 1 .. UnconsumedBytes(b) : RestOf(b)[i] = b.buffer[b.readOffset + i]
<1> DEFINE s == b.buffer
           m == b.readOffset
           n == Len(s)
<1>1. s \in Seq(Nat) /\ m \in Nat /\ n \in Nat /\ m <= n /\ n <= Len(s)
  BY DEF StreamType
<1>2. RestOf(b) = SubSeq(s, m + 1, n) /\ UnconsumedBytes(b) = n - m
  BY DEF RestOf, UnconsumedBytes
<1> HIDE DEF s, m, n
<1> DEFINE r == SubSeq(s, m + 1, n)
<1>3. r \in Seq(Nat) /\ Len(r) = (IF m < n THEN n - m ELSE 0)
      /\ \A i \in 1 .. Len(r) : r[i] = s[m + i]
  BY <1>1, PartTyped
<1> HIDE DEF r
<1>4. Len(r) = n - m /\ n - m \in Nat
  BY <1>1, <1>3
<1>5. \A i \in 1 .. n - m : r[i] = s[m + i]
  BY <1>3, <1>4
<1> QED
  BY <1>2, <1>3, <1>4, <1>5 DEF s, m, n, r

LEMMA AppendRests ==
    ASSUME NEW b \in StreamType, OffsetsStand(b), NEW chunk \in Seq(Nat)
    PROVE  /\ OffsetsStand(AppendChunk(b, chunk)) /\ RestOf(AppendChunk(b, chunk)) = RestOf(b) \o chunk
           /\ UnconsumedBytes(AppendChunk(b, chunk)) = UnconsumedBytes(b) + Len(chunk)
<1> DEFINE d == AppendChunk(b, chunk)
           s == b.buffer
           m == b.readOffset
           e == b.searchOffset
           n == Len(s)
           l == Len(chunk)
           t == s \o chunk
<1>1. /\ s \in Seq(Nat) /\ m \in Nat /\ e \in Nat /\ n \in Nat /\ l \in Nat /\ m <= e /\ e <= n
      /\ \A i \in m + 1 .. e : s[i] # LF
      /\ m < CompactAt
  BY DEF StreamType, OffsetsStand
<1>2. t \in Seq(Nat) /\ Len(t) = n + l
      /\ \A i \in 1 .. n + l : t[i] = IF i <= n THEN s[i] ELSE chunk[i - n]
  BY <1>1, ConcatProperties
<1>3. d.buffer = t /\ d.readOffset = m /\ d.searchOffset = e /\ d \in StreamType
  <2>1. d = [b EXCEPT !.buffer = t]
    BY DEF AppendChunk
  <2> HIDE DEF t
  <2> QED
    BY <1>2, <2>1 DEF StreamType
<1>4. /\ RestOf(b) \in Seq(Nat) /\ Len(RestOf(b)) = n - m /\ UnconsumedBytes(b) = n - m
      /\ \A i \in 1 .. n - m : RestOf(b)[i] = s[m + i]
  BY <1>1, RestIs DEF UnconsumedBytes
<1> HIDE DEF d, t
<1>5. /\ RestOf(d) \in Seq(Nat) /\ Len(RestOf(d)) = n + l - m /\ UnconsumedBytes(d) = n + l - m
      /\ \A i \in 1 .. n + l - m : RestOf(d)[i] = t[m + i]
  <2>1. d.readOffset <= Len(d.buffer) /\ UnconsumedBytes(d) = n + l - m
    <3>1. UnconsumedBytes(d) = Len(d.buffer) - d.readOffset
      BY DEF UnconsumedBytes
    <3>2. Len(d.buffer) = n + l /\ d.readOffset = m
      BY <1>2, <1>3
    <3> HIDE DEF n, l, m
    <3>3. m <= n + l
      BY <1>1
    <3>4. d.readOffset <= Len(d.buffer)
      BY <3>2, <3>3
    <3>5. UnconsumedBytes(d) = n + l - m
      BY <1>1, <3>1, <3>2
    <3> QED
      BY <3>4, <3>5
  <2>2. /\ RestOf(d) \in Seq(Nat) /\ Len(RestOf(d)) = UnconsumedBytes(d)
        /\ \A i \in 1 .. UnconsumedBytes(d) : RestOf(d)[i] = d.buffer[d.readOffset + i]
    BY <1>3, <2>1, RestIs
  <2> QED
    BY <1>3, <2>1, <2>2
<1> DEFINE x == RestOf(b)
           y == RestOf(d)
           z == x \o chunk
<1>6. /\ z \in Seq(Nat) /\ Len(z) = Len(x) + l
      /\ \A i \in 1 .. Len(x) + l : z[i] = IF i <= Len(x) THEN x[i] ELSE chunk[i - Len(x)]
  <2>1. x \in Seq(Nat)
    BY <1>4
  <2> HIDE DEF x
  <2> QED
    BY <2>1, ConcatProperties
<1> HIDE DEF x, y, z, s, m, e, n, l
<1>7. Len(x) = n - m /\ Len(y) = n + l - m /\ Len(y) = Len(z)
  BY <1>1, <1>4, <1>5, <1>6 DEF x, y
<1>8. ASSUME NEW i \in 1 .. Len(y)
      PROVE  y[i] = z[i]
  <2>1. i \in 1 .. n + l - m /\ i \in 1 .. Len(x) + l /\ m + i \in 1 .. n + l
    BY <1>1, <1>7
  <2>2. y[i] = t[m + i]
    BY <1>5, <2>1 DEF y
  <2>3. CASE i <= n - m
    <3>1. m + i <= n /\ i \in 1 .. n - m
      BY <1>1, <2>1, <2>3
    <3>2. t[m + i] = s[m + i]
      BY <1>2, <2>1, <3>1
    <3>3. z[i] = x[i] /\ x[i] = s[m + i]
      BY <1>4, <1>6, <1>7, <2>1, <2>3, <3>1 DEF x
    <3> QED
      BY <2>2, <3>2, <3>3
  <2>4. CASE ~(i <= n - m)
    <3>1. ~(m + i <= n) /\ (m + i) - n = i - (n - m)
      BY <1>1, <2>1, <2>4
    <3> QED
      BY <1>2, <1>6, <1>7, <2>1, <2>2, <2>4, <3>1
  <2> QED
    BY <2>3, <2>4
<1>9. y = z
  <2>1. y \in Seq(Nat)
    BY <1>5 DEF y
  <2> QED
    BY <1>6, <1>7, <1>8, <2>1, SeqEqual
<1>10. OffsetsStand(d)
  <2>1. \A i \in m + 1 .. e : t[i] # LF
    <3> TAKE i \in m + 1 .. e
    <3>1. i \in 1 .. n + l /\ i <= n
      BY <1>1
    <3> QED
      BY <1>1, <1>2, <3>1
  <2>2. e <= Len(t)
    BY <1>1, <1>2
  <2> QED
    BY <1>1, <1>3, <2>1, <2>2 DEF OffsetsStand
<1>11. UnconsumedBytes(d) = UnconsumedBytes(b) + l
  BY <1>1, <1>4, <1>5
<1> QED
  BY <1>9, <1>10, <1>11 DEF d, y, z, x, l

LEMMA SearchedRests ==
    ASSUME NEW b \in StreamType, OffsetsStand(b), ~HasLine(b)
    PROVE  /\ OffsetsStand(Searched(b)) /\ RestOf(Searched(b)) = RestOf(b)
           /\ UnconsumedBytes(Searched(b)) = UnconsumedBytes(b)
<1> DEFINE d == Searched(b)
           s == b.buffer
           m == b.readOffset
           e == b.searchOffset
           n == Len(s)
<1>1. /\ m \in Nat /\ e \in Nat /\ n \in Nat /\ m <= e /\ e <= n
      /\ \A i \in m + 1 .. e : s[i] # LF
      /\ m < CompactAt
  BY DEF StreamType, OffsetsStand
<1>2. \A i \in e + 1 .. n : s[i] # LF
  BY DEF HasLine, Newlines
<1>3. d.buffer = s /\ d.readOffset = m /\ d.searchOffset = n
  BY DEF Searched, StreamType
<1> HIDE DEF d, s, m, e, n
<1>4. \A i \in m + 1 .. n : s[i] # LF
  <2> TAKE i \in m + 1 .. n
  <2>1. i \in m + 1 .. e \/ i \in e + 1 .. n
    BY <1>1
  <2> QED
    BY <1>1, <1>2, <2>1
<1>5. OffsetsStand(d)
  <2>1. Len(d.buffer) = n /\ m <= n /\ n <= n
    BY <1>1, <1>3 DEF n
  <2> QED
    BY <1>1, <1>3, <1>4, <2>1 DEF OffsetsStand
<1>6. RestOf(d) = RestOf(b) /\ UnconsumedBytes(d) = UnconsumedBytes(b)
  BY <1>3 DEF RestOf, UnconsumedBytes, s, m
<1> QED
  BY <1>5, <1>6 DEF d

\* What is left when the record in front is cut off, compacted or not.
LEMMA ExtractRests ==
    ASSUME stream \in StreamType, OffsetsStand(stream), HasLine(stream)
    PROVE  LET b == Compacted(ExtractLine(stream))
               j == Min(Newlines(stream)) - stream.readOffset
           IN  /\ j \in 1 .. UnconsumedBytes(stream) /\ RestOf(stream)[j] = LF
               /\ \A i \in 1 .. j - 1 : RestOf(stream)[i] # LF
               /\ OffsetsStand(b) /\ b \in StreamType
               /\ RestOf(b) \in Seq(Nat) /\ Len(RestOf(b)) = UnconsumedBytes(stream) - j
               /\ UnconsumedBytes(b) = UnconsumedBytes(stream) - j
               /\ \A i \in 1 .. UnconsumedBytes(stream) - j :
                     RestOf(b)[i] = RestOf(stream)[j + i]
               /\ \E line \in Seq(Nat) :
                     /\ Len(line) = j - 1 /\ Line(stream) = TrimCR(line)
                     /\ \A i \in 1 .. j - 1 : line[i] = RestOf(stream)[i]
<1> DEFINE s == stream.buffer
           m == stream.readOffset
           e == stream.searchOffset
           n == Len(s)
           x == Min(Newlines(stream))
           c == [buffer |-> s, readOffset |-> x, searchOffset |-> x]
           b == Compacted(ExtractLine(stream))
           u == RestOf(stream)
           j == x - m
<1>1. /\ s \in Seq(Nat) /\ m \in Nat /\ e \in Nat /\ n \in Nat /\ m <= e /\ e <= n
      /\ \A i \in m + 1 .. e : s[i] # LF
      /\ m < CompactAt /\ CompactAt \in Nat \ {0} /\ n = Len(s)
  BY ClientAssumption DEF StreamType, OffsetsStand
<1>2. x \in e + 1 .. n /\ s[x] = LF /\ \A i \in e + 1 .. n : s[i] = LF => x <= i
  BY LineFound
<1>3. /\ u \in Seq(Nat) /\ Len(u) = n - m /\ UnconsumedBytes(stream) = n - m
      /\ \A i \in 1 .. n - m : u[i] = s[m + i]
  BY <1>1, RestIs DEF UnconsumedBytes
<1>4. ExtractLine(stream) = c
  <2>1. ExtractLine(stream) = [stream EXCEPT !.readOffset = x, !.searchOffset = x]
    BY DEF ExtractLine
  <2> HIDE DEF x
  <2> QED
    BY <2>1 DEF StreamType
<1>5. Line(stream) = TrimCR(SubSeq(s, m + 1, x - 1))
  BY DEF Line
<1>6. b = Compacted(c)
  BY <1>4
<1> HIDE DEF b, s, m, e, n, x, u
<1>7. x \in Nat /\ j \in Nat /\ j \in 1 .. n - m /\ m + j = x /\ x - 1 \in Nat /\ x - 1 <= n /\ x <= n
  BY <1>1, <1>2
<1> HIDE DEF j
<1>8. u[j] = LF
  BY <1>2, <1>3, <1>7
<1>9. \A i \in 1 .. j - 1 : u[i] # LF
  <2> TAKE i \in 1 .. j - 1
  <2>1. i \in 1 .. n - m /\ m + i < x /\ (m + i \in m + 1 .. e \/ m + i \in e + 1 .. n)
    BY <1>1, <1>7
  <2>2. u[i] = s[m + i]
    BY <1>3, <2>1
  <2> QED
    BY <1>1, <1>2, <2>1, <2>2
<1> DEFINE r == SubSeq(s, x + 1, n)
           d == [buffer |-> r, readOffset |-> 0, searchOffset |-> 0]
<1>10. /\ r \in Seq(Nat) /\ Len(r) = n - x
       /\ \A i \in 1 .. n - x : r[i] = s[x + i]
  <2>1. r \in Seq(Nat) /\ Len(r) = (IF x < n THEN n - x ELSE 0)
        /\ \A i \in 1 .. Len(r) : r[i] = s[x + i]
    BY <1>1, <1>7, PartTyped
  <2> HIDE DEF r
  <2>2. Len(r) = n - x
    BY <1>1, <1>7, <2>1
  <2> QED
    BY <2>1, <2>2
<1>11. RestOf(c) = r
  BY DEF RestOf, r, n
<1>12. Compact(c) = d
  <2>1. c.readOffset > 0
    BY <1>1, <1>2
  <2> QED
    BY <2>1 DEF Compact, n
<1>13. b = IF x = n \/ x >= CompactAt THEN d ELSE c
  <2>1. Compacted(c) = IF x = n \/ x >= CompactAt THEN Compact(c) ELSE c
    BY DEF Compacted, n
  <2> QED
    BY <1>6, <1>12, <2>1
<1> HIDE DEF r
<1>14. RestOf(d) = r
  <2>1. /\ SubSeq(r, 0 + 1, Len(r)) \in Seq(Nat)
        /\ Len(SubSeq(r, 0 + 1, Len(r))) = IF 0 < Len(r) THEN Len(r) - 0 ELSE 0
        /\ \A i \in 1 .. Len(SubSeq(r, 0 + 1, Len(r))) : SubSeq(r, 0 + 1, Len(r))[i] = r[0 + i]
    BY <1>10, PartTyped
  <2> DEFINE y == SubSeq(r, 0 + 1, Len(r))
  <2>2. RestOf(d) = y
    BY DEF RestOf
  <2> HIDE DEF y
  <2>3. Len(y) = Len(r) /\ Len(r) \in Nat
    BY <1>10, <2>1 DEF y
  <2>4. \A i \in 1 .. Len(y) : y[i] = r[i]
    BY <2>1, <2>3 DEF y
  <2>5. y = r
    BY <1>10, <2>1, <2>3, <2>4, SeqEqual DEF y
  <2> QED
    BY <2>2, <2>5
<1>15. RestOf(b) = r
  BY <1>11, <1>13, <1>14
<1>16. c \in StreamType /\ d \in StreamType
  BY <1>1, <1>7, <1>10 DEF StreamType
<1>17. OffsetsStand(c) <=> x < CompactAt
  <2>1. c.buffer = s /\ c.readOffset = x /\ c.searchOffset = x
    OBVIOUS
  <2>2. x <= x /\ x <= Len(s) /\ \A i \in x + 1 .. x : s[i] # LF
    BY <1>1, <1>7
  <2> QED
    BY <2>1, <2>2 DEF OffsetsStand
<1>18. OffsetsStand(d)
  <2>1. d.buffer = r /\ d.readOffset = 0 /\ d.searchOffset = 0
    OBVIOUS
  <2>2. 0 <= 0 /\ 0 <= Len(r) /\ (\A i \in 0 + 1 .. 0 : r[i] # LF) /\ 0 < CompactAt
    BY <1>1, <1>10
  <2> QED
    BY <2>1, <2>2 DEF OffsetsStand
<1>19. OffsetsStand(b) /\ b \in StreamType
  <2>1. ~(x >= CompactAt) => x < CompactAt
    BY <1>1, <1>7
  <2> QED
    BY <1>13, <1>16, <1>17, <1>18, <2>1
<1>20. n - x = (n - m) - j
  BY <1>1, <1>7
<1>21. UnconsumedBytes(b) = (n - m) - j
  <2>1. b.readOffset <= Len(b.buffer)
    BY <1>19 DEF OffsetsStand, StreamType
  <2>2. Len(RestOf(b)) = UnconsumedBytes(b)
    BY <1>19, <2>1, RestIs
  <2> QED
    BY <1>10, <1>15, <1>20, <2>2
<1>22. \A i \in 1 .. (n - m) - j : r[i] = u[j + i]
  <2> TAKE i \in 1 .. (n - m) - j
  <2>1. i \in 1 .. n - x /\ j + i \in 1 .. n - m /\ m + (j + i) = x + i
    BY <1>1, <1>7, <1>20
  <2> QED
    BY <1>3, <1>10, <2>1
<1> DEFINE l == SubSeq(s, m + 1, x - 1)
<1>23. l \in Seq(Nat) /\ Len(l) = j - 1 /\ \A i \in 1 .. j - 1 : l[i] = u[i]
  <2>1. l \in Seq(Nat) /\ Len(l) = (IF m < x - 1 THEN (x - 1) - m ELSE 0)
        /\ \A i \in 1 .. Len(l) : l[i] = s[m + i]
    BY <1>1, <1>7, PartTyped
  <2> HIDE DEF l
  <2>2. Len(l) = j - 1
    BY <1>1, <1>7, <2>1
  <2>3. \A i \in 1 .. j - 1 : i \in 1 .. n - m
    BY <1>1, <1>7
  <2> QED
    BY <1>3, <2>1, <2>2, <2>3
<1> HIDE DEF l
<1>24. \E line \in Seq(Nat) :
          /\ Len(line) = j - 1 /\ Line(stream) = TrimCR(line)
          /\ \A i \in 1 .. j - 1 : line[i] = u[i]
  BY <1>5, <1>23 DEF l
<1>25. RestOf(b) \in Seq(Nat) /\ Len(RestOf(b)) = (n - m) - j
       /\ \A i \in 1 .. (n - m) - j : RestOf(b)[i] = u[j + i]
  BY <1>10, <1>15, <1>20, <1>22
<1> QED
  BY <1>3, <1>7, <1>8, <1>9, <1>19, <1>21, <1>24, <1>25 DEF b, u, j, x, m
-----------------------------------------------------------------------------
(* What the talker has read and has not, while it holds its pipes.         *)

\* The part of the conversation that the framing is about.
Chunk == io["control"].bytes

Replies == pairs[Home].replies

\* What lies in the buffer, in the read and in the pipe.
Unread == (RestOf(stream) \o Chunk) \o Replies

\* A read of the control pipe may still bring bytes.
Arriving == io["control"].kernel \in {"pending", "done"}

BufferStands ==
    /\ OffsetsStand(stream)
    /\ UnconsumedBytes(stream) <= MaxRecordBytes + ChunkBytes
    /\ Arriving => UnconsumedBytes(stream) <= MaxRecordBytes
    /\ Len(Chunk) <= ChunkBytes

LinesAreRecords ==
    /\ Len(lines) <= Len(sent)
    /\ \A i \in 1 .. Len(lines) : lines[i] = Text(i, sent[i].event)

FramesInv ==
    Held => BufferStands /\ LinesAreRecords /\ Framed(Unread, Len(lines), sent)

LEMMA UnreadTyped ==
    ASSUME SpokenInv, Held, BufferStands
    PROVE  /\ Home \in Pairs /\ stream \in StreamType /\ RestOf(stream) \in Seq(Nat)
           /\ Len(RestOf(stream)) = UnconsumedBytes(stream) /\ UnconsumedBytes(stream) \in Nat
           /\ Chunk \in Seq(Nat) /\ Replies \in Seq(Nat) /\ Unread \in Seq(Nat)
           /\ RestOf(stream) \o Chunk \in Seq(Nat)
           /\ lines \in Seq(Seq(Nat)) /\ Len(lines) \in Nat /\ sent \in Seq(Record)
           /\ Len(sent) \in Nat /\ MaxRecordBytes \in Nat /\ ChunkBytes \in Nat /\ Len(Chunk) \in Nat
           /\ io \in [Channels -> ReadType] /\ TypedPairs(pairs)
<1>1. /\ Home \in Pairs /\ stream \in StreamType /\ Chunk \in Seq(Nat) /\ Replies \in Seq(Nat)
      /\ lines \in Seq(Seq(Nat)) /\ sent \in Seq(Record) /\ MaxRecordBytes \in Nat
      /\ ChunkBytes \in Nat /\ io \in [Channels -> ReadType] /\ TypedPairs(pairs)
  BY ClientAssumption DEF SpokenInv, HomeStands, HearingTyped, SayingTyped, DataTyped, Chunk,
     Replies, ReadType, Channels, CrossInv, LifetimeInv
<1>2. stream.readOffset <= Len(stream.buffer)
  BY <1>1 DEF BufferStands, OffsetsStand, StreamType
<1>3. /\ RestOf(stream) \in Seq(Nat) /\ Len(RestOf(stream)) = UnconsumedBytes(stream)
      /\ UnconsumedBytes(stream) \in Nat
  BY <1>1, <1>2, RestIs
<1>4. RestOf(stream) \o Chunk \in Seq(Nat)
  BY <1>1, <1>3, ConcatProperties
<1>5. Unread \in Seq(Nat)
  BY <1>1, <1>4, ConcatProperties DEF Unread
<1> QED
  BY <1>1, <1>3, <1>4, <1>5

\* Nothing is written, cut off or read.
LEMMA FramesStay ==
    ASSUME FramesInv, Held, UNCHANGED <<sent, lines, stream>>, Chunk' = Chunk,
           Replies' = Replies, Arriving' => Arriving
    PROVE  FramesInv'
<1>1. BufferStands /\ LinesAreRecords /\ Framed(Unread, Len(lines), sent)
  BY DEF FramesInv
<1>2. Unread' = Unread
  BY DEF Unread
<1>3. BufferStands'
  BY <1>1 DEF BufferStands
<1> QED
  BY <1>1, <1>2, <1>3 DEF FramesInv, LinesAreRecords

LEMMA Joined ==
    ASSUME NEW a \in Seq(Nat), NEW b \in Seq(Nat), NEW c \in Seq(Nat)
    PROVE  (a \o b) \o c = a \o (b \o c)
BY ConcatAssociative

\* The provider writes a record.
LEMMA FramesGrow ==
    ASSUME SpokenInv, FramesInv, Held, UNCHANGED <<lines, stream>>, Chunk' = Chunk,
           Arriving' => Arriving, NEW r \in Record, NEW end \in {<<LF>>, <<CR, LF>>},
           sent' = Append(sent, r), Replies' = Replies \o Text(Len(sent) + 1, r.event) \o end
    PROVE  FramesInv'
<1> DEFINE k == Len(sent) + 1
           t == Text(k, r.event)
           u == RestOf(stream) \o Chunk
           v == Unread
           w == v \o (t \o end)
<1>1. BufferStands /\ LinesAreRecords /\ Framed(Unread, Len(lines), sent)
  BY DEF FramesInv
<1>2. /\ u \in Seq(Nat) /\ Replies \in Seq(Nat) /\ v \in Seq(Nat) /\ Len(lines) \in Nat
      /\ sent \in Seq(Record) /\ Len(sent) \in Nat /\ v = u \o Replies /\ k \in Nat
  BY <1>1, UnreadTyped DEF Unread
<1>3. t \in Seq(Nat) /\ end \in Seq(Nat) /\ t \o end \in Seq(Nat)
  <2>1. t \in Seq(Nat)
    BY <1>2, TextTyped
  <2>2. end \in Seq(Nat)
    <3>1. <<LF>> \in Seq(Nat) /\ <<CR, LF>> \in Seq(Nat)
      BY DEF LF, CR
    <3> QED
      BY <3>1
  <2> HIDE DEF t
  <2> QED
    BY <2>1, <2>2, ConcatProperties
<1>4. Unread' = u \o ((Replies \o t) \o end)
  BY DEF Unread
<1> HIDE DEF k, t, u, v
<1>5. Unread' = w
  <2> DEFINE x == t \o end
             q == Replies
  <2>0. q \in Seq(Nat) /\ t \in Seq(Nat) /\ end \in Seq(Nat) /\ u \in Seq(Nat) /\ x \in Seq(Nat)
    BY <1>2, <1>3
  <2>4. Unread' = u \o ((q \o t) \o end) /\ v = u \o q
    BY <1>2, <1>4
  <2> HIDE DEF q
  <2>1. (q \o t) \o end = q \o (t \o end)
    BY ONLY <2>0, Joined
  <2> HIDE DEF x
  <2>3. (u \o q) \o x = u \o (q \o x)
    BY ONLY <2>0, Joined
  <2> QED
    BY <2>1, <2>3, <2>4 DEF x
<1>6. /\ w \in Seq(Nat) /\ Len(v) <= Len(w) /\ \A i \in 1 .. Len(v) : w[i] = v[i]
      /\ RecordIn(w, Len(v), Len(w), k, Width(r.event))
  BY <1>2, WritesRecord DEF t
<1> HIDE DEF w
<1>7. Framed(w, Len(lines), Append(sent, r))
  BY <1>1, <1>2, <1>6, FramedGrows DEF v, k
<1>8. Framed(Unread', Len(lines'), sent')
  BY <1>5, <1>7
<1>9. LinesAreRecords'
  <2>1. /\ Len(sent') = Len(sent) + 1
        /\ \A i \in 1 .. Len(sent) : sent'[i] = sent[i]
    BY <1>2
  <2>2. \A i \in 1 .. Len(lines) : i \in 1 .. Len(sent)
    BY <1>1, <1>2 DEF LinesAreRecords
  <2> QED
    BY <1>1, <1>2, <2>1, <2>2 DEF LinesAreRecords
<1>10. BufferStands'
  BY <1>1 DEF BufferStands
<1> QED
  BY <1>8, <1>9, <1>10 DEF FramesInv

LEMMA CutJoins ==
    ASSUME NEW s \in Seq(Nat), NEW n \in 1 .. Len(s)
    PROVE  SubSeq(s, 1, n) \o SubSeq(s, n + 1, Len(s)) = s
<1> DEFINE x == SubSeq(s, 1, n)
           y == SubSeq(s, n + 1, Len(s))
           z == x \o y
<1>1. /\ x \in Seq(Nat) /\ y \in Seq(Nat) /\ Len(x) = n /\ Len(y) = Len(s) - n
      /\ \A i \in 1 .. n : x[i] = s[i]
      /\ \A i \in 1 .. Len(s) - n : y[i] = s[n + i]
  BY CutTyped
<1> HIDE DEF x, y
<1>2. /\ z \in Seq(Nat) /\ Len(z) = Len(x) + Len(y)
      /\ \A i \in 1 .. Len(x) + Len(y) : z[i] = IF i <= Len(x) THEN x[i] ELSE y[i - Len(x)]
  BY <1>1, ConcatProperties
<1> HIDE DEF z
<1>3. Len(z) = Len(s) /\ Len(s) \in Nat /\ n \in Nat
  BY <1>1, <1>2
<1>4. ASSUME NEW i \in 1 .. Len(s)
      PROVE  z[i] = s[i]
  <2>1. CASE i <= n
    BY <1>1, <1>2, <1>3, <2>1
  <2>2. CASE ~(i <= n)
    <3>1. i - n \in 1 .. Len(s) - n /\ n + (i - n) = i /\ i \in 1 .. Len(x) + Len(y)
      BY <1>1, <1>3, <2>2
    <3>2. y[i - n] = s[n + (i - n)]
      BY <1>1, <3>1
    <3> QED
      BY <1>1, <1>2, <2>2, <3>1, <3>2
  <2> QED
    BY <2>1, <2>2
<1>5. z = s
  BY <1>2, <1>3, <1>4, SeqEqual
<1> QED
  BY <1>5 DEF x, y, z

\* The kernel takes bytes from the pipe.
LEMMA ArrivalKeepsFrames ==
    ASSUME SpokenInv, FramesInv, UNCHANGED sent, ControlArrives
    PROVE  FramesInv'
<1> DEFINE there == Replies
           n == Min({ChunkBytes, Len(there)})
           e == <<>>
<1>1. /\ io["control"].kernel = "pending" /\ n > 0
      /\ io' = [io EXCEPT !["control"].kernel = "done", !["control"].bytes = SubSeq(there, 1, n)]
      /\ pairs' = [pairs EXCEPT ![Home].replies = SubSeq(there, n + 1, Len(there))]
      /\ UNCHANGED <<client, stream, lines, heard>> /\ "control" \in Channels
  BY DEF ControlArrives, PipeOf, Home, Operation, Channels, Replies
<1>2. Held /\ Chunk = e
  BY <1>1, ReadIsHeld DEF Chunk
<1>3. BufferStands /\ LinesAreRecords /\ Framed(Unread, Len(lines), sent)
  BY <1>2 DEF FramesInv
<1>4. /\ Home \in Pairs /\ there \in Seq(Nat) /\ TypedPairs(pairs) /\ RestOf(stream) \in Seq(Nat)
      /\ ChunkBytes \in Nat /\ Len(there) \in Nat
  BY <1>2, <1>3, UnreadTyped
<1>5. n \in 1 .. Len(there) /\ n <= ChunkBytes
  <2>1. {ChunkBytes, Len(there)} \subseteq Nat
    BY <1>4
  <2>2. n \in {ChunkBytes, Len(there)} /\ \A y \in {ChunkBytes, Len(there)} : n <= y
    BY <2>1, MinOf
  <2> HIDE DEF n
  <2> QED
    BY <1>1, <2>1, <2>2
<1> HIDE DEF n
<1> DEFINE x == SubSeq(there, 1, n)
           y == SubSeq(there, n + 1, Len(there))
<1>6. x \in Seq(Nat) /\ y \in Seq(Nat) /\ Len(x) = n /\ x \o y = there
  BY <1>4, <1>5, CutTyped, CutJoins
<1>7. io' = [io EXCEPT !["control"].kernel = "done", !["control"].bytes = x]
      /\ pairs' = [pairs EXCEPT ![Home].replies = y]
  BY <1>1
<1> HIDE DEF x, y, e, there
<1>8. Chunk' = x
  BY <1>1, <1>6, <1>7, ArrivalIs DEF Chunk
<1>9. Home' = Home /\ Replies' = y
  <2>1. Home' = Home
    BY <1>1 DEF Home
  <2>2. DataBut(Home, pairs[Home].commands, y, pairs[Home].pcm)
    BY <1>4, <1>7, RecordsMove
  <2> QED
    BY <1>4, <2>1, <2>2 DEF DataBut, Replies
<1>10. Unread' = Unread
  <2> DEFINE r == RestOf(stream)
  <2>1. r \in Seq(Nat) /\ x \in Seq(Nat) /\ y \in Seq(Nat) /\ x \o y = there
    BY <1>4, <1>6
  <2>2. Unread = (r \o e) \o there
    BY <1>2 DEF Unread, there
  <2>3. Unread' = (r \o x) \o y
    BY <1>1, <1>8, <1>9 DEF Unread
  <2> HIDE DEF r
  <2>4. (r \o x) \o y = r \o (x \o y)
    BY <2>1, Joined
  <2>5. r \o e = r
    BY <2>1, ConcatEmptySeq DEF e
  <2> QED
    BY <2>1, <2>2, <2>3, <2>4, <2>5
<1>11. BufferStands'
  <2>1. UnconsumedBytes(stream) <= MaxRecordBytes
    BY <1>1, <1>3 DEF BufferStands, Arriving
  <2> QED
    BY <1>1, <1>3, <1>5, <1>6, <1>8, <2>1 DEF BufferStands
<1>12. LinesAreRecords'
  BY <1>1, <1>3 DEF LinesAreRecords
<1> QED
  BY <1>1, <1>3, <1>10, <1>11, <1>12 DEF FramesInv

\* The thread puts the bytes of its read into the buffer.
LEMMA ReturnKeepsFrames ==
    ASSUME SpokenInv, FramesInv, UNCHANGED sent, Returns("control")
    PROVE  FramesInv'
<1> DEFINE e == <<>>
<1>1. /\ UNCHANGED <<pairs, client, lines>> /\ Held /\ "control" \in Channels
      /\ IF io["control"].kernel = "done" THEN stream' = AppendChunk(stream, Chunk)
         ELSE stream' = stream
      /\ io["control"].kernel # "pending"
  BY ReadIsHeld DEF Returns, Operation, TakesBytes, Chunk, Channels
<1>2. BufferStands /\ LinesAreRecords /\ Framed(Unread, Len(lines), sent)
  BY <1>1 DEF FramesInv
<1>3. /\ Home \in Pairs /\ stream \in StreamType /\ RestOf(stream) \in Seq(Nat)
      /\ Chunk \in Seq(Nat) /\ Replies \in Seq(Nat) /\ RestOf(stream) \o Chunk \in Seq(Nat)
      /\ io \in [Channels -> ReadType] /\ Len(Chunk) \in Nat /\ UnconsumedBytes(stream) \in Nat
      /\ MaxRecordBytes \in Nat /\ ChunkBytes \in Nat
  BY <1>1, <1>2, UnreadTyped
<1>4. Chunk' = e /\ io'["control"].kernel = "none"
  <2>1. PICK r \in {[NoRead EXCEPT !.thread = "error"], NoRead} : io' = [io EXCEPT !["control"] = r]
    BY DEF Returns
  <2>2. r.bytes = e /\ r.kernel = "none"
    BY DEF NoRead
  <2> HIDE DEF e
  <2>3. io'["control"] = r
    BY <1>1, <1>3, <2>1
  <2> QED
    BY <2>2, <2>3 DEF Chunk
<1>5. Home' = Home /\ Replies' = Replies /\ ~Arriving'
  BY <1>1, <1>4 DEF Home, Replies, Arriving
<1>6. Len(e) = 0
  OBVIOUS
<1> HIDE DEF e
<1>7. LinesAreRecords'
  BY <1>1, <1>2 DEF LinesAreRecords
<1>8. CASE io["control"].kernel = "done"
  <2>1. stream' = AppendChunk(stream, Chunk)
    BY <1>1, <1>8
  <2>2. /\ OffsetsStand(stream') /\ RestOf(stream') = RestOf(stream) \o Chunk
        /\ UnconsumedBytes(stream') = UnconsumedBytes(stream) + Len(Chunk)
    BY <1>2, <1>3, <2>1, AppendRests DEF BufferStands
  <2>3. Unread' = Unread
    <3> DEFINE u == RestOf(stream) \o Chunk
    <3>1. u \o e = u
      <4>1. u \in Seq(Nat)
        BY <1>3
      <4> HIDE DEF u
      <4> QED
        BY <4>1, ConcatEmptySeq DEF e
    <3>2. Unread' = (u \o e) \o Replies /\ Unread = u \o Replies
      BY <1>4, <1>5, <2>2 DEF Unread
    <3> HIDE DEF u
    <3> QED
      BY <3>1, <3>2
  <2>4. BufferStands'
    <3>1. UnconsumedBytes(stream) <= MaxRecordBytes /\ Len(Chunk) <= ChunkBytes
      BY <1>2, <1>8 DEF BufferStands, Arriving
    <3>2. UnconsumedBytes(stream') <= MaxRecordBytes + ChunkBytes
      BY <1>3, <2>2, <3>1
    <3>3. Len(Chunk') <= ChunkBytes
      BY <1>3, <1>4, <1>6
    <3> QED
      BY <1>5, <2>2, <3>2, <3>3 DEF BufferStands
  <2> QED
    BY <1>1, <1>2, <1>7, <2>3, <2>4 DEF FramesInv
<1>9. CASE io["control"].kernel # "done"
  <2>1. Chunk = e
    BY <1>1, <1>9 DEF SpokenInv, ReadsStand, Chunk, e
  <2> QED
    BY <1>1, <1>4, <1>5, <1>9, <2>1, FramesStay
<1> QED
  BY <1>8, <1>9

\* What is lost in front of a sequence is lost in front of its continuation.
LEMMA DropsFront ==
    ASSUME NEW r \in Seq(Nat), NEW x \in Seq(Nat), NEW s \in Seq(Nat), NEW j \in 1 .. Len(r),
           Len(s) = Len(r) - j, \A i \in 1 .. Len(s) : s[i] = r[j + i]
    PROVE  /\ j \in 1 .. Len(r \o x) /\ Len(s \o x) = Len(r \o x) - j
           /\ \A i \in 1 .. Len(r) : (r \o x)[i] = r[i]
           /\ \A i \in 1 .. Len(s \o x) : (s \o x)[i] = (r \o x)[j + i]
<1> DEFINE u == r \o x
           t == s \o x
           n == Len(r)
           m == Len(s)
           l == Len(x)
<1>1. n \in Nat /\ m \in Nat /\ l \in Nat /\ j \in Nat /\ 1 <= j /\ j <= n /\ m = n - j
  OBVIOUS
<1>2. Len(u) = n + l /\ \A i \in 1 .. n + l : u[i] = IF i <= n THEN r[i] ELSE x[i - n]
  BY ConcatProperties
<1>3. Len(t) = m + l /\ \A i \in 1 .. m + l : t[i] = IF i <= m THEN s[i] ELSE x[i - m]
  BY ConcatProperties
<1>4. \A i \in 1 .. m : s[i] = r[j + i]
  OBVIOUS
<1> HIDE DEF u, t, n, m, l
<1>5. j \in 1 .. Len(u) /\ Len(t) = Len(u) - j
  BY <1>1, <1>2, <1>3
<1>6. \A i \in 1 .. n : u[i] = r[i]
  BY <1>1, <1>2
<1>7. ASSUME NEW i \in 1 .. Len(t)
      PROVE  t[i] = u[j + i]
  <2>1. i \in 1 .. m + l /\ j + i \in 1 .. n + l
    BY <1>1, <1>3
  <2>2. CASE i <= m
    <3>1. j + i <= n /\ i \in 1 .. m
      BY <1>1, <2>1, <2>2
    <3> QED
      BY <1>2, <1>3, <1>4, <2>1, <2>2, <3>1
  <2>3. CASE ~(i <= m)
    <3>1. ~(j + i <= n) /\ (j + i) - n = i - m
      BY <1>1, <2>1, <2>3
    <3> QED
      BY <1>2, <1>3, <2>1, <2>3, <3>1
  <2> QED
    BY <2>2, <2>3
<1> QED
  BY <1>5, <1>6, <1>7 DEF u, t, n

\* The thread hands out the record in front.
LEMMA MessageKeepsFrames ==
    ASSUME SpokenInv, FramesInv, UNCHANGED sent, ReadsMessage
    PROVE  FramesInv'
<1>1. /\ Held /\ HasLine(stream) /\ lines' = Append(lines, Line(stream))
      /\ stream' = Compacted(ExtractLine(stream)) /\ UNCHANGED <<pairs, client, io, heard>>
      /\ io["control"].thread = "idle"
  BY ReadIsHeld DEF ReadsMessage
<1>2. BufferStands /\ LinesAreRecords /\ Framed(Unread, Len(lines), sent) /\ OffsetsStand(stream)
  BY <1>1 DEF FramesInv, BufferStands
<1>3. /\ stream \in StreamType /\ RestOf(stream) \in Seq(Nat)
      /\ Len(RestOf(stream)) = UnconsumedBytes(stream) /\ UnconsumedBytes(stream) \in Nat
      /\ Chunk \in Seq(Nat) /\ Replies \in Seq(Nat) /\ Unread \in Seq(Nat)
      /\ lines \in Seq(Seq(Nat)) /\ Len(lines) \in Nat /\ sent \in Seq(Record)
      /\ MaxRecordBytes \in Nat /\ ChunkBytes \in Nat
  BY <1>1, <1>2, UnreadTyped
<1> DEFINE b == Compacted(ExtractLine(stream))
           j == Min(Newlines(stream)) - stream.readOffset
           r == RestOf(stream)
           s == RestOf(b)
           n == UnconsumedBytes(stream)
           x == Chunk \o Replies
           u == r \o x
           t == s \o x
<1>4. /\ j \in 1 .. n /\ r[j] = LF
      /\ \A i \in 1 .. j - 1 : r[i] # LF
      /\ OffsetsStand(b) /\ b \in StreamType
      /\ s \in Seq(Nat) /\ Len(s) = n - j /\ UnconsumedBytes(b) = n - j
      /\ \A i \in 1 .. n - j : s[i] = r[j + i]
      /\ \E line \in Seq(Nat) :
            /\ Len(line) = j - 1 /\ Line(stream) = TrimCR(line)
            /\ \A i \in 1 .. j - 1 : line[i] = r[i]
  BY <1>1, <1>2, <1>3, ExtractRests
<1>5. stream' = b /\ r \in Seq(Nat) /\ Len(r) = n /\ n \in Nat
  BY <1>1, <1>3
<1>6. x \in Seq(Nat)
  BY <1>3, ConcatProperties
<1>7. PICK line \in Seq(Nat) :
         /\ Len(line) = j - 1 /\ Line(stream) = TrimCR(line)
         /\ \A i \in 1 .. j - 1 : line[i] = r[i]
  BY <1>4
<1>8. Unread = u
  <2> DEFINE ch == Chunk
             re == Replies
  <2>1. Unread = (r \o ch) \o re /\ u = r \o (ch \o re)
    BY DEF Unread
  <2>2. r \in Seq(Nat) /\ ch \in Seq(Nat) /\ re \in Seq(Nat)
    BY <1>3
  <2> HIDE DEF r, ch, re, u
  <2>3. (r \o ch) \o re = r \o (ch \o re)
    BY <2>2, Joined
  <2> QED
    BY <2>1, <2>3
<1>9. Unread' = t
  <2> DEFINE ch == Chunk
             re == Replies
  <2>1. Unread' = (s \o ch) \o re /\ t = s \o (ch \o re)
    <3>1. Chunk' = Chunk /\ Replies' = Replies /\ RestOf(stream') = s
      BY <1>1 DEF Chunk, Replies, Home
    <3> QED
      BY <3>1 DEF Unread
  <2>2. s \in Seq(Nat) /\ ch \in Seq(Nat) /\ re \in Seq(Nat)
    BY <1>3, <1>4
  <2> HIDE DEF s, ch, re, t
  <2>3. (s \o ch) \o re = s \o (ch \o re)
    BY <2>2, Joined
  <2> QED
    BY <2>1, <2>3
<1> HIDE DEF b, j, r, s, n, x
<1>10. /\ j \in 1 .. Len(u) /\ Len(t) = Len(u) - j
       /\ \A i \in 1 .. Len(r) : u[i] = r[i]
       /\ \A i \in 1 .. Len(t) : t[i] = u[j + i]
  <2>1. j \in 1 .. Len(r) /\ Len(s) = Len(r) - j /\ \A i \in 1 .. Len(s) : s[i] = r[j + i]
    BY <1>4, <1>5
  <2>2. r \in Seq(Nat) /\ x \in Seq(Nat) /\ s \in Seq(Nat)
    BY <1>4, <1>5, <1>6
  <2> QED
    BY <2>1, <2>2, DropsFront, ZenonT(40)
<1>11. u \in Seq(Nat) /\ t \in Seq(Nat)
  BY <1>4, <1>5, <1>6, ConcatProperties
<1> HIDE DEF u, t
<1>12. u[j] = LF /\ \A i \in 1 .. j - 1 : u[i] # LF /\ line[i] = u[i]
  <2>1. j \in 1 .. Len(r) /\ \A i \in 1 .. j - 1 : i \in 1 .. Len(r)
    BY <1>4, <1>5
  <2> QED
    BY <1>4, <1>7, <1>10, <2>1
<1> DEFINE k == Len(lines)
<1>13. /\ k + 1 <= Len(sent) /\ TrimCR(line) = Text(k + 1, sent[k + 1].event)
       /\ Framed(t, k + 1, sent)
  <2>1. /\ Framed(u, k, sent) /\ k \in Nat /\ sent \in Seq(Record)
        /\ line \in Seq(Nat) /\ Len(line) = j - 1
    BY <1>2, <1>3, <1>7, <1>8
  <2>2. \A i \in 1 .. j - 1 : u[i] # LF
    BY <1>12
  <2>3. \A i \in 1 .. j - 1 : line[i] = u[i]
    BY <1>12
  <2>4. j \in 1 .. Len(u) /\ u[j] = LF /\ Len(t) = Len(u) - j
        /\ \A i \in 1 .. Len(t) : t[i] = u[j + i]
    BY <1>10, <1>12
  <2> HIDE DEF k
  <2> QED
    BY <1>11, <2>1, <2>2, <2>3, <2>4, NextRecord
<1>14. /\ Len(lines') = k + 1 /\ lines'[k + 1] = Line(stream)
       /\ \A i \in 1 .. k : lines'[i] = lines[i]
  <2>1. Line(stream) \in Seq(Nat)
    BY <1>1, <1>3, LineTyped
  <2> QED
    BY <1>1, <1>3, <2>1
<1>15. LinesAreRecords'
  <2>0. k \in Nat
    BY <1>3
  <2>1. \A i \in 1 .. k + 1 : i \in 1 .. k \/ i = k + 1
    <3> HIDE DEF k
    <3> QED
      BY <2>0
  <2>2. \A i \in 1 .. k : lines[i] = Text(i, sent[i].event)
    BY <1>2 DEF LinesAreRecords
  <2> HIDE DEF k
  <2> QED
    BY <1>7, <1>13, <1>14, <2>1, <2>2 DEF LinesAreRecords
<1>16. Framed(Unread', Len(lines'), sent')
  BY <1>9, <1>13, <1>14
<1>17. BufferStands'
  <2>1. ~Arriving'
    BY <1>1 DEF SpokenInv, ReadsStand, Arriving, Channels
  <2>2. UnconsumedBytes(stream') <= n /\ n <= MaxRecordBytes + ChunkBytes
    BY <1>2, <1>4, <1>5 DEF BufferStands, n
  <2>3. UnconsumedBytes(stream') <= MaxRecordBytes + ChunkBytes
    <3>1. UnconsumedBytes(stream') \in Nat
      BY <1>4, <1>5
    <3> QED
      BY <1>3, <1>5, <2>2, <3>1
  <2>4. Len(Chunk') <= ChunkBytes
    BY <1>1, <1>2 DEF BufferStands, Chunk
  <2> QED
    BY <1>4, <1>5, <2>1, <2>3, <2>4 DEF BufferStands
<1> QED
  BY <1>15, <1>16, <1>17 DEF FramesInv

\* A read begins when the buffer holds no line.
LEMMA BeginningKeepsFrames ==
    ASSUME SpokenInv, FramesInv, UNCHANGED sent, BeginControlRead
    PROVE  FramesInv'
<1> DEFINE e == <<>>
<1>1. /\ Held /\ ~HasLine(stream) /\ UnconsumedBytes(stream) <= MaxRecordBytes
      /\ stream' = Searched(stream) /\ UNCHANGED <<pairs, client, lines>>
      /\ io["control"].thread = "idle" /\ "control" \in Channels
      /\ io' = [io EXCEPT !["control"] =
                   [thread |-> "waiting", kernel |-> "pending", bytes |-> e]]
  BY ReadIsHeld DEF BeginControlRead, ReadPending, Channels
<1>2. BufferStands /\ LinesAreRecords /\ Framed(Unread, Len(lines), sent) /\ OffsetsStand(stream)
  BY <1>1 DEF FramesInv, BufferStands
<1>3. stream \in StreamType /\ io \in [Channels -> ReadType] /\ Len(Chunk) <= ChunkBytes
  BY <1>1, <1>2, UnreadTyped DEF BufferStands
<1>4. Chunk = e
  BY <1>1 DEF SpokenInv, ReadsStand, Chunk
<1>5. Chunk' = e
  <2> HIDE DEF e
  <2>1. io'["control"] = [thread |-> "waiting", kernel |-> "pending", bytes |-> e]
    BY <1>1, <1>3
  <2> QED
    BY <2>1 DEF Chunk
<1> HIDE DEF e
<1>6. /\ OffsetsStand(stream') /\ RestOf(stream') = RestOf(stream)
      /\ UnconsumedBytes(stream') = UnconsumedBytes(stream)
  BY <1>1, <1>2, <1>3, SearchedRests
<1>7. Replies' = Replies
  BY <1>1 DEF Replies, Home
<1>8. Unread' = Unread
  BY <1>4, <1>5, <1>6, <1>7 DEF Unread
<1>9. BufferStands'
  BY <1>1, <1>2, <1>3, <1>4, <1>5, <1>6 DEF BufferStands
<1> QED
  BY <1>1, <1>2, <1>8, <1>9 DEF FramesInv, LinesAreRecords

\* The other steps of the reads.
LEMMA OtherReadsKeepFrames ==
    ASSUME SpokenInv, FramesInv, UNCHANGED sent,
           \/ BeginAudioRead \/ Overflows \/ AudioArrives \/ Returns("audio")
           \/ \E k \in Channels : PipeEnds(k) \/ CancelsRead(k) \/ CancellationTakes(k)
    PROVE  FramesInv'
<1>1. Held /\ UNCHANGED <<client, lines>>
  BY ReadIsHeld DEF BeginAudioRead, Overflows, AudioArrives, Returns, PipeEnds, CancelsRead,
     CancellationTakes, Operation, Channels
<1>2. stream' = stream
  BY DEF BeginAudioRead, Overflows, AudioArrives, Returns, PipeEnds, CancelsRead,
     CancellationTakes, TakesBytes
<1>3. /\ Home \in Pairs /\ TypedPairs(pairs) /\ Home' = Home
      /\ io \in [Channels -> ReadType] /\ io["control"] \in ReadType
  BY <1>1 DEF SpokenInv, HomeStands, CrossInv, LifetimeInv, Home, HearingTyped, Channels
<1>4. Replies' = Replies
  <2>1. CASE pairs' = pairs
    BY <1>3, <2>1 DEF Replies
  <2>2. CASE AudioArrives
    <3> DEFINE x == client[Talker].audio
    <3>1. \E v : pairs' = [pairs EXCEPT ![x].pcm = v]
      BY <2>2 DEF AudioArrives, PipeOf
    <3>2. x \in Pairs
      BY <1>1 DEF SpokenInv, HomeStands
    <3>3. pairs'[Home].replies = pairs[Home].replies
      BY <1>3, <3>1, <3>2, SoundMoves DEF DataBut
    <3> QED
      BY <1>3, <3>3 DEF Replies
  <2> QED
    BY <2>1, <2>2 DEF BeginAudioRead, Overflows, Returns, PipeEnds, CancelsRead, CancellationTakes
<1>5. Chunk' = Chunk /\ (Arriving' => Arriving)
  <2>1. CASE BeginAudioRead \/ AudioArrives \/ Returns("audio")
    <3>1. io'["control"] = io["control"]
      BY <1>3, <2>1 DEF BeginAudioRead, AudioArrives, Returns, ReadPending, Channels
    <3> QED
      BY <3>1 DEF Chunk, Arriving
  <2>2. CASE Overflows
    <3>1. io' = [io EXCEPT !["control"].thread = "error"]
      BY <2>2 DEF Overflows
    <3>2. io'["control"] = [io["control"] EXCEPT !.thread = "error"]
      BY <1>3, <3>1 DEF Channels
    <3> QED
      BY <1>3, <3>2 DEF Chunk, Arriving, ReadType
  <2>3. ASSUME NEW k \in Channels, CancelsRead(k)
        PROVE  Chunk' = Chunk /\ (Arriving' => Arriving)
    <3>1. io' = [io EXCEPT ![k].thread = "reaping"]
      BY <2>3 DEF CancelsRead
    <3>2. io'["control"] = IF k = "control" THEN [io["control"] EXCEPT !.thread = "reaping"]
                           ELSE io["control"]
      BY <1>3, <3>1 DEF Channels
    <3> QED
      BY <1>3, <3>2 DEF Chunk, Arriving, ReadType
  <2>4. ASSUME NEW k \in Channels, PipeEnds(k) \/ CancellationTakes(k)
        PROVE  Chunk' = Chunk /\ (Arriving' => Arriving)
    <3>1. PICK v \in {"failed", "aborted"} : io' = [io EXCEPT ![k].kernel = v]
      BY <2>4 DEF PipeEnds, CancellationTakes
    <3>2. io'["control"] = IF k = "control" THEN [io["control"] EXCEPT !.kernel = v]
                           ELSE io["control"]
      BY <1>3, <3>1 DEF Channels
    <3> QED
      BY <1>3, <3>2 DEF Chunk, Arriving, ReadType
  <2> QED
    BY <2>1, <2>2, <2>3, <2>4
<1> QED
  BY <1>1, <1>2, <1>4, <1>5, FramesStay

LEMMA ReadsKeepFrames ==
    ASSUME SpokenInv, FramesInv, Reads
    PROVE  FramesInv'
<1>1. ReadSteps /\ UNCHANGED sent
  BY DEF Reads, conversation
<1> QED
  BY <1>1, BeginningKeepsFrames, ArrivalKeepsFrames, MessageKeepsFrames, ReturnKeepsFrames,
     OtherReadsKeepFrames DEF ReadSteps, Channels

\* What the engine sends.
LEMMA TalkKeepsFrames ==
    ASSUME SpokenInv, FramesInv, AsksInfo \/ GetsInfo \/ SendsSpeak \/ BeginsCancel \/ SendsCancel
    PROVE  FramesInv'
<1>1. Held /\ UNCHANGED <<sent, client, ioVars>>
      /\ \E cs \in Seq(Command) : DataBut(Home, cs, pairs[Home].replies, pairs[Home].pcm)
  BY TalkMoves
<1>2. Home \in Pairs /\ Home' = Home
  BY <1>1 DEF SpokenInv, HomeStands, Home
<1>3. Replies' = Replies /\ Chunk' = Chunk /\ Arriving' = Arriving /\ UNCHANGED <<lines, stream>>
  BY <1>1, <1>2 DEF DataBut, Replies, Chunk, Arriving, ioVars
<1> QED
  BY <1>1, <1>3, FramesStay

\* The loop takes a command, and may answer it.
LEMMA LoopKeepsFrames ==
    ASSUME SpokenInv, FramesInv, Held, NEW p \in Pairs, UNCHANGED clientSide,
           AnswersQuery(p) \/ RefusesSpeak(p) \/ StartsSpeak(p) \/ HandlesCancel(p)
    PROVE  FramesInv'
<1>1. TypedPairs(pairs) /\ DataTyped
  BY DEF SpokenInv, CrossInv, LifetimeInv
<1>2. p = Home /\ Home' = Home /\ Home \in Pairs
  BY LoopIs
<1>3. UNCHANGED <<lines, stream>> /\ Chunk' = Chunk /\ Arriving' = Arriving
  BY DEF clientSide, ioVars, Chunk, Arriving
<1>4. CASE /\ sent' = sent
           /\ DataBut(p, Tail(pairs[p].commands), pairs[p].replies, pairs[p].pcm)
  <2>1. Replies' = Replies
    BY <1>2, <1>4 DEF DataBut, Replies
  <2> QED
    BY <1>3, <1>4, <2>1, FramesStay
<1>5. ASSUME NEW event \in {"log", "info", "voices", "unknown"}, NEW id \in Nat,
             sent' = Append(sent, AnswerTo(event, id)),
             DataBut(p, Tail(pairs[p].commands),
                     pairs[p].replies \o Text(Len(sent) + 1, event) \o <<CR, LF>>, pairs[p].pcm)
      PROVE  FramesInv'
  <2> DEFINE r == AnswerTo(event, id)
             end == <<CR, LF>>
  <2>1. r \in Record /\ r.event = event
    BY DEF AnswerTo, Record
  <2>2. Replies' = Replies \o Text(Len(sent) + 1, event) \o end
    BY <1>2, <1>5 DEF DataBut, Replies
  <2>3. sent' = Append(sent, r) /\ end \in {<<LF>>, <<CR, LF>>}
    BY <1>5
  <2> HIDE DEF r, end
  <2> QED
    BY <1>3, <2>1, <2>2, <2>3, FramesGrow
<1>6. \/ /\ sent' = sent
         /\ DataBut(p, Tail(pairs[p].commands), pairs[p].replies, pairs[p].pcm)
      \/ \E event \in {"log", "info", "voices", "unknown"}, id \in Nat :
            /\ sent' = Append(sent, AnswerTo(event, id))
            /\ DataBut(p, Tail(pairs[p].commands),
                       pairs[p].replies \o Text(Len(sent) + 1, event) \o <<CR, LF>>, pairs[p].pcm)
  BY <1>1, LoopMoves
<1> QED
  BY <1>4, <1>5, <1>6

\* The task goes on, and may write a record.
LEMMA TaskKeepsFrames ==
    ASSUME SpokenInv, FramesInv, Held, NEW p \in Pairs, Synthesizes(p)
    PROVE  FramesInv'
<1>1. /\ TaskSteps(p) /\ UNCHANGED <<client, lines, stream>> /\ Chunk' = Chunk
      /\ Arriving' = Arriving
  BY DEF Synthesizes, clientSide, ioVars, Chunk, Arriving
<1>2. /\ TypedPairs(pairs) /\ TaskStands /\ task \in TaskType /\ Home \in Pairs
      /\ task.id \in Nat /\ Home' = Home
  BY <1>1, QueueTyped DEF SpokenInv, SayingTyped, CrossInv, LifetimeInv, Home
<1>3. CASE TaskFails(p) \/ Quiet(p)
  <2>1. UNCHANGED <<pairs, sent>>
    BY <1>2, <1>3, FailingTask, QuietTask
  <2> QED
    BY <1>1, <1>2, <2>1, FramesStay DEF Replies
<1>4. CASE Sounds(p)
  <2>1. sent' = sent /\ \E as : DataBut(p, pairs[p].commands, pairs[p].replies, as)
    BY <1>2, <1>4, SoundingTask
  <2>2. Replies' = Replies
    BY <1>2, <2>1 DEF DataBut, Replies
  <2> QED
    BY <1>1, <2>1, <2>2, FramesStay
<1>5. CASE Says(p)
  <2>1. task.pair = p
    BY <1>2, <1>5, SayingTask
  <2>2. p = Home
    BY <2>1, TaskIsHome
  <2>3. PICK event \in {"word_boundary", "sentence_boundary", "synthesis_complete",
                        "synthesis_cancelled", "error"}, bytes \in Nat :
           /\ DataBut(p, pairs[p].commands,
                      pairs[p].replies \o Text(Len(sent) + 1, event) \o <<LF>>, pairs[p].pcm)
           /\ sent' = Append(sent, [event |-> event, id |-> task.id, bytes |-> bytes])
    BY <1>2, <1>5, SayingTask
  <2> DEFINE r == [event |-> event, id |-> task.id, bytes |-> bytes]
             end == <<LF>>
  <2>4. r \in Record /\ r.event = event
    BY <1>2 DEF Record
  <2>5. Replies' = Replies \o Text(Len(sent) + 1, event) \o end
    BY <1>2, <2>2, <2>3 DEF DataBut, Replies
  <2>6. sent' = Append(sent, r) /\ end \in {<<LF>>, <<CR, LF>>}
    BY <2>3
  <2> HIDE DEF r, end
  <2> QED
    BY <1>1, <2>4, <2>5, <2>6, FramesGrow
<1> QED
  BY <1>1, <1>3, <1>4, <1>5, TaskStepIs

\* A step around the conversation leaves the records alone.
LEMMA AroundKeepsFrames ==
    ASSUME SpokenInv, FramesInv, Held, PipesGo, UNCHANGED <<sent, ioVars>>,
           client'[Talker] = client[Talker]
    PROVE  FramesInv'
<1>1. Home' = Home /\ Home \in Pairs /\ pairs[Home].control \in {Talker, "closed"}
  BY DEF SpokenInv, HomeStands, Home
<1>2. Replies' = Replies
  BY <1>1 DEF PipesGo, PipeGoes, Replies
<1> QED
  BY <1>2, FramesStay DEF ioVars, Chunk, Arriving

\* A talker that has just got its pipes has read nothing and nothing has been written.
LEMMA FramesAtFirst ==
    ASSUME SpokenInv, SpokenInv', NEW c \in Clients, Connects(c), ~Held, Held'
    PROVE  FramesInv'
<1>1. /\ ConnectSteps(c) /\ UNCHANGED <<sent, session>>
      /\ client = [d \in Clients |-> client[d]] /\ Talker \in Clients
  BY PipesAssumption DEF Connects, conversation, SpokenInv, CrossInv, ClientTyped
<1>2. UNCHANGED ioVars /\ \E r : client' = [client EXCEPT ![c] = r]
  BY <1>1 DEF ConnectSteps, BeginConnect, OpensControl, ControlUnavailable, OpensAudio,
     ModeFails, AudioUnavailable, Denied, TriesAgain, GivesUp, LaunchFails, ClientGoes,
     ConnectReturns, AttemptFails
<1>3. c = Talker
  BY <1>1, <1>2 DEF Held
<1>4. ~Gone
  BY <1>1, <1>3 DEF Gone, Is, ConnectSteps, BeginConnect, OpensControl, ControlUnavailable,
     OpensAudio, ModeFails, AudioUnavailable, Denied, TriesAgain, GivesUp, LaunchFails
<1>5. \A p \in Pairs : Empty(p)
  BY <1>4 DEF SpokenInv, BeforeTalk
<1>6. PipesGo
  BY <1>1, ConnectingGoes DEF SpokenInv
<1>7. \A p \in Pairs : Empty(p)'
  BY <1>5, <1>6, GoingKeepsData DEF SpokenInv
<1> DEFINE e == <<>>
<1>8. Replies' = e
  BY <1>7 DEF SpokenInv, HomeStands, Empty, Replies
<1>9. NothingSaid
  BY DEF SpokenInv, Silence
<1>10. /\ stream' = [buffer |-> e, readOffset |-> 0, searchOffset |-> 0]
       /\ lines' = e /\ sent' = e /\ Chunk' = e /\ ~Arriving'
  BY <1>1, <1>2, <1>9 DEF NothingSaid, ioVars, EmptyControlBuffer, NoRead, Channels, Chunk, Arriving
<1>11. e \in Seq(Nat) /\ Len(e) = 0 /\ e \o e = e
  OBVIOUS
<1>12. RestOf(stream') = e
  <2>1. SubSeq(e, 0 + 1, 0) = e
    OBVIOUS
  <2> HIDE DEF e
  <2> QED
    BY <1>10, <1>11, <2>1 DEF RestOf
<1> HIDE DEF e
<1>13. Unread' = e
  BY <1>8, <1>10, <1>11, <1>12 DEF Unread
<1>14. Framed(e, 0, e)
  <2> DEFINE c0 == [k \in Nat |-> 0]
  <2>1. c0 \in [Nat -> Int] /\ \A k \in Nat : c0[k] = 0
    OBVIOUS
  <2> HIDE DEF c0
  <2>2. Cuts(c0, e, 0, 0)
    BY <1>11, <2>1 DEF Cuts
  <2>3. FramedBy(c0, e, 0, e)
    BY <1>11, <2>2 DEF FramedBy
  <2> QED
    BY <2>3 DEF Framed
<1>15. BufferStands'
  <2>1. OffsetsStand(stream')
    BY <1>10, <1>11, ClientAssumption DEF OffsetsStand
  <2>2. UnconsumedBytes(stream') = 0
    BY <1>10, <1>11 DEF UnconsumedBytes
  <2> QED
    BY <1>10, <1>11, <2>1, <2>2, ClientAssumption DEF BufferStands
<1>16. LinesAreRecords'
  BY <1>10, <1>11 DEF LinesAreRecords
<1> QED
  BY <1>10, <1>11, <1>13, <1>14, <1>15, <1>16 DEF FramesInv

LEMMA LeavesKeepsFrames ==
    ASSUME SpokenInv, FramesInv, NEW c \in Clients, Leaves(c)
    PROVE  FramesInv'
<1>1. CrossInv'
  BY CrossStep DEF SpokenInv, Next
<1>2. /\ \A k \in Channels : io'[k].bytes = io[k].bytes
      /\ Held /\ Home' = Home
  BY <1>1, LeavesKeepsSpoken
<1>3. /\ UNCHANGED <<pairs, sent, lines, stream>>
      /\ io' = [k \in Channels |-> IF Operation(k) = "pending"
                                   THEN [io[k] EXCEPT !.kernel = "aborted"] ELSE io[k]]
  BY DEF Leaves, CancelsIo, conversation
<1>4. Arriving' => Arriving
  <2>1. "control" \in Channels /\ io["control"] \in ReadType
    BY DEF Channels, SpokenInv, HearingTyped
  <2>2. io'["control"].kernel \in {io["control"].kernel, "aborted"}
    BY <1>3, <2>1 DEF ReadType
  <2> QED
    BY <2>2 DEF Arriving
<1>5. Chunk' = Chunk
  BY <1>2 DEF Chunk, Channels
<1>6. Replies' = Replies
  BY <1>2, <1>3 DEF Replies
<1> QED
  BY <1>2, <1>3, <1>4, <1>5, <1>6, FramesStay

LEMMA FramesStep ==
    ASSUME SpokenInv, FramesInv, [Next]_vars
    PROVE  FramesInv'
<1>1. SpokenInv' /\ CrossInv'
  BY SpokenStep DEF SpokenInv
<1>2. CASE ~Held'
  BY <1>2 DEF FramesInv
<1>3. CASE ~Held /\ Held'
  <2>1. CASE UNCHANGED vars
    BY <1>3, <2>1 DEF vars, Held
  <2>2. CASE Next
    BY <1>1, <1>3, <2>2, FramesAtFirst, HeldByConnecting
  <2> QED
    BY <2>1, <2>2
<1>4. CASE Held /\ Held'
  <2>1. CASE AroundTalk
    BY <1>4, <2>1, AroundKeepsFrames DEF AroundTalk
  <2>2. CASE Reads
    BY <2>2, ReadsKeepFrames
  <2>3. CASE AsksInfo \/ GetsInfo \/ SendsSpeak \/ BeginsCancel \/ SendsCancel
    BY <2>3, TalkKeepsFrames
  <2>4. ASSUME NEW c \in Clients, Leaves(c)
        PROVE  FramesInv'
    BY <2>4, LeavesKeepsFrames
  <2>5. ASSUME NEW p \in Pairs, UNCHANGED clientSide, TakesCommand(p)
        PROVE  FramesInv'
    BY <1>4, <2>5, LoopKeepsFrames DEF TakesCommand
  <2>6. ASSUME NEW p \in Pairs, Synthesizes(p)
        PROVE  FramesInv'
    BY <1>4, <2>6, TaskKeepsFrames
  <2> QED
    BY <1>4, <2>1, <2>2, <2>3, <2>4, <2>5, <2>6, HeldSteps
<1> QED
  BY <1>2, <1>3, <1>4
-----------------------------------------------------------------------------
(* Everything has its type.                                                *)

OwnTyped ==
    \A c \in Clients :
       client[c].own \in Processes \cup {NoProcess} /\ client[c].tries \in 0 .. MaxTries

\* Only connecting and launching change what a client has launched and tried.
LEMMA OwnSteps ==
    ASSUME SpokenInv, OwnTyped, NEW c \in Clients, NEW r,
           client' = [client EXCEPT ![c] = r],
           r.own \in Processes \cup {NoProcess}, r.tries \in 0 .. MaxTries
    PROVE  OwnTyped'
<1>1. client = [d \in Clients |-> client[d]]
  BY DEF SpokenInv, CrossInv, ClientTyped
<1>2. \A d \in Clients : client'[d] = IF d = c THEN r ELSE client[d]
  BY <1>1
<1> QED
  BY <1>2 DEF OwnTyped

LEMMA OwnStep ==
    ASSUME SpokenInv, OwnTyped, [Next]_vars
    PROVE  OwnTyped'
<1>1. \A d \in Clients : client[d] \in ClientFields(client[d])
  BY DEF SpokenInv, CrossInv, ClientTyped
<1>2. 0 \in 0 .. MaxTries /\ 1 \in 0 .. MaxTries /\ MaxTries \in Nat
  BY ClientAssumption
<1>3. CASE client' = client
  BY <1>3 DEF OwnTyped
<1>4. ASSUME NEW c \in Clients, NEW place, ConnectReturns(c, place)
      PROVE  OwnTyped'
  <2> DEFINE r == [NoHandles EXCEPT !.place = place]
  <2>1. r.own = NoProcess /\ r.tries = 0
    BY DEF NoHandles
  <2>2. client' = [client EXCEPT ![c] = r]
    BY <1>4 DEF ConnectReturns
  <2> HIDE DEF r
  <2> QED
    BY <1>2, <2>1, <2>2, OwnSteps
<1>5. ASSUME NEW c \in Clients, NEW r, client' = [client EXCEPT ![c] = r],
             r.own = client[c].own, r.tries = client[c].tries
      PROVE  OwnTyped'
  BY <1>5, OwnSteps DEF OwnTyped
<1>6. ASSUME NEW c \in Clients, ConnectSteps(c)
      PROVE  OwnTyped'
  <2>1. client[c] \in ClientFields(client[c])
    BY <1>1
  <2>2. CASE BeginConnect(c)
    <3> DEFINE r == [client[c] EXCEPT !.place = "open", !.tries = 1]
    <3>1. client' = [client EXCEPT ![c] = r]
      BY <2>2 DEF BeginConnect
    <3>2. r.own = client[c].own /\ r.tries = 1
      BY <2>1 DEF ClientFields
    <3> HIDE DEF r
    <3> QED
      BY <1>2, <3>1, <3>2, OwnSteps DEF OwnTyped
  <2>3. CASE TriesAgain(c)
    <3> DEFINE r == [client[c] EXCEPT !.place = "open", !.tries = @ + 1]
    <3>1. client' = [client EXCEPT ![c] = r] /\ client[c].tries < MaxTries
      BY <2>3 DEF TriesAgain
    <3>2. r.own = client[c].own /\ r.tries = client[c].tries + 1
      BY <2>1 DEF ClientFields
    <3>3. client[c].tries \in 0 .. MaxTries /\ client[c].own \in Processes \cup {NoProcess}
      BY DEF OwnTyped
    <3>4. client[c].tries + 1 \in 0 .. MaxTries
      BY <1>2, <3>1, <3>3
    <3> HIDE DEF r
    <3> QED
      BY <3>1, <3>2, <3>3, <3>4, OwnSteps
  <2>4. CASE OpensControl(c)
    <3>1. PICK p \in Listening("control") :
             client' = [client EXCEPT ![c].place = "audio", ![c].control = p]
      BY <2>4 DEF OpensControl
    <3> DEFINE r == [client[c] EXCEPT !.place = "audio", !.control = p]
    <3>2. client' = [client EXCEPT ![c] = r]
      BY <3>1
    <3>3. r.own = client[c].own /\ r.tries = client[c].tries
      BY <2>1 DEF ClientFields
    <3> HIDE DEF r
    <3> QED
      BY <1>5, <3>2, <3>3
  <2>5. ASSUME NEW place, ClientGoes(c, place)
        PROVE  OwnTyped'
    <3> DEFINE r == [client[c] EXCEPT !.place = place]
    <3>1. client' = [client EXCEPT ![c] = r]
      BY <2>5 DEF ClientGoes
    <3>2. r.own = client[c].own /\ r.tries = client[c].tries
      BY <2>1 DEF ClientFields
    <3> HIDE DEF r
    <3> QED
      BY <1>5, <3>1, <3>2
  <2>6. CASE AttemptFails(c)
    <3> DEFINE r == [client[c] EXCEPT !.place = "waiting", !.control = 0]
    <3>1. client' = [client EXCEPT ![c] = r]
      BY <2>6 DEF AttemptFails
    <3>2. r.own = client[c].own /\ r.tries = client[c].tries
      BY <2>1 DEF ClientFields
    <3> HIDE DEF r
    <3> QED
      BY <1>5, <3>1, <3>2
  <2>7. CASE OpensAudio(c)
    <3>1. PICK p \in Listening("audio") :
             client' = [client EXCEPT ![c] = [NoHandles EXCEPT !.place = "connected",
                                              !.control = client[c].control, !.audio = p]]
      BY <2>7 DEF OpensAudio
    <3> DEFINE r == [NoHandles EXCEPT !.place = "connected",
                                      !.control = client[c].control, !.audio = p]
    <3>2. client' = [client EXCEPT ![c] = r]
      BY <3>1
    <3>3. r.own = NoProcess /\ r.tries = 0
      BY DEF NoHandles
    <3> HIDE DEF r
    <3> QED
      BY <1>2, <3>2, <3>3, OwnSteps
  <2>8. CASE ControlUnavailable(c) \/ Denied(c) \/ GivesUp(c) \/ LaunchFails(c)
             \/ ModeFails(c) \/ AudioUnavailable(c)
    BY <1>4, <2>5, <2>6, <2>8
       DEF ControlUnavailable, Denied, GivesUp, LaunchFails, ModeFails, AudioUnavailable
  <2> QED
    BY <1>6, <2>2, <2>3, <2>4, <2>7, <2>8 DEF ConnectSteps
<1>7. ASSUME NEW c \in Clients, Launches(c)
      PROVE  OwnTyped'
  <2>1. client[c] \in ClientFields(client[c])
    BY <1>1
  <2>2. PICK q \in Absent : client' = [client EXCEPT ![c].place = "waiting", ![c].own = q]
    BY <1>7 DEF Launches
  <2> DEFINE r == [client[c] EXCEPT !.place = "waiting", !.own = q]
  <2>3. client' = [client EXCEPT ![c] = r]
    BY <2>2
  <2>4. r.own = q /\ r.tries = client[c].tries /\ q \in Processes
    BY <2>1 DEF ClientFields, Absent
  <2> HIDE DEF r
  <2> QED
    BY <2>3, <2>4, OwnSteps DEF OwnTyped
<1>8. ASSUME NEW c \in Clients, Leaves(c)
      PROVE  OwnTyped'
  <2>1. client[c] \in ClientFields(client[c])
    BY <1>1
  <2> DEFINE r == [client[c] EXCEPT !.place = "closing"]
  <2>2. client' = [client EXCEPT ![c] = r]
    BY <1>8 DEF Leaves, CancelsIo, ClientGoes
  <2>3. r.own = client[c].own /\ r.tries = client[c].tries
    BY <2>1 DEF ClientFields
  <2> HIDE DEF r
  <2> QED
    BY <1>5, <2>2, <2>3
<1>9. ASSUME NEW c \in Clients, Closes(c)
      PROVE  OwnTyped'
  BY <1>4, <1>9 DEF Closes, ClosesHandles
<1>10. CASE Reads
  BY <1>3, <1>10, ReadsMove DEF AroundReads
<1>11. CASE AsksInfo \/ GetsInfo \/ SendsSpeak \/ BeginsCancel \/ SendsCancel
  BY <1>3, <1>11, TalkMoves
<1>12. ASSUME NEW q \in Processes, Runs(q)
       PROVE  OwnTyped'
  BY <1>3, <1>12 DEF Runs, clientSide
<1>13. ASSUME NEW p \in Pairs, Loops(p) \/ Synthesizes(p)
       PROVE  OwnTyped'
  BY <1>3, <1>13 DEF Loops, Synthesizes, clientSide
<1>14. CASE UNCHANGED vars
  BY <1>3, <1>14 DEF vars
<1> QED
  BY <1>6, <1>7, <1>8, <1>9, <1>10, <1>11, <1>12, <1>13, <1>14 DEF Next, Connects

LEMMA OwnAtFirst == Init => OwnTyped
<1> SUFFICES ASSUME Init
             PROVE  OwnTyped
  OBVIOUS
<1>1. client = [c \in Clients |-> NoHandles] /\ MaxTries \in Nat
  BY ClientAssumption DEF Init, ClientInit
<1> QED
  BY <1>1 DEF NoHandles, OwnTyped

\* Every part of the state has its type.
LEMMA EverythingTyped ==
    ASSUME SpokenInv, OwnTyped
    PROVE  TypeOK
<1>1. /\ TypedPairs(pairs) /\ ProcTyped /\ SessionTyped /\ ClientTyped
      /\ DataTyped /\ SayingTyped /\ HearingTyped
  BY DEF SpokenInv, CrossInv, LifetimeInv
<1>2. PairsTypeOK
  <2>1. DOMAIN pairs = Pairs
    BY <1>1 DEF TypedPairs
  <2> SUFFICES ASSUME NEW p \in Pairs
               PROVE  /\ pairs[p].owner \in Processes \cup {NoProcess}
                      /\ \A k \in Channels : pairs[p][k] \in Ends
                      /\ pairs[p].commands \in
                            Seq([kind : {"info", "voices", "speak", "cancel", "unknown"},
                                 id : Nat, shape : Shapes])
                      /\ pairs[p].replies \in Seq(Nat)
                      /\ pairs[p].pcm \in Seq(Nat) /\ Len(pairs[p].pcm) <= 2
    BY <2>1 DEF PairsTypeOK
  <2>2. pairs[p] \in PairFields(pairs[p])
    BY <1>1 DEF TypedPairs
  <2>3. pairs[p].owner \in Processes \cup {NoProcess} /\ pairs[p].control \in Ends
        /\ pairs[p].audio \in Ends
    BY <2>2 DEF PairFields
  <2>4. \A k \in Channels : pairs[p][k] \in Ends
    BY <2>3 DEF Channels
  <2> DEFINE T == [kind : {"info", "voices", "speak", "cancel", "unknown"},
                   id : Nat, shape : Shapes]
             s == pairs[p].commands
  <2>5. s \in Seq(Command) /\ Command \subseteq T
    BY <1>1 DEF DataTyped, Command
  <2>6. s \in Seq(T)
    <3> HIDE DEF T, s
    <3> QED
      BY <2>5
  <2> QED
    BY <1>1, <2>3, <2>4, <2>6 DEF DataTyped
<1>3. MockTypeOK
  <2>1. proc \in [Processes -> ProcFields]
    BY <1>1 DEF ProcTyped
  <2>2. session \in [Pairs -> {"none", "reading", "cancelling", "ended"}]
    BY <1>1 DEF SessionTyped, Serving
  <2> QED
    BY <2>1, <2>2 DEF MockTypeOK, ProcFields, Timers
<1>4. SynthesisTypeOK
  BY <1>1 DEF SayingTyped, TaskType, SynthesisTypeOK
<1>5. ClientTypeOK
  <2> DEFINE C == [place : ClientPlaces, control : 0 .. MaxPairs, audio : 0 .. MaxPairs,
                   own : Processes \cup {NoProcess}, tries : 0 .. MaxTries]
  <2>1. ASSUME NEW c \in Clients
        PROVE  client[c] \in C
    <3>1. client[c] \in ClientFields(client[c])
      BY <1>1 DEF ClientTyped
    <3>2. client[c].own \in Processes \cup {NoProcess} /\ client[c].tries \in 0 .. MaxTries
      BY DEF OwnTyped
    <3> QED
      BY <3>1, <3>2 DEF ClientFields
  <2>2. client \in [Clients -> C]
    <3>1. client = [c \in Clients |-> client[c]]
      BY <1>1 DEF ClientTyped
    <3> HIDE DEF C
    <3> QED
      BY <2>1, <3>1
  <2> QED
    BY <1>1, <2>2 DEF HearingTyped, ReadType, StreamType, ClientTypeOK
<1>6. /\ plan \in Plans
      /\ talk \in TalkFields
  BY <1>1, TalkIsTyped DEF SayingTyped
<1> QED
  BY <1>2, <1>3, <1>4, <1>5, <1>6 DEF TypeOK, TalkFields

\* However the control stream is cut into reads, and whatever read is cancelled in the
\* middle of it, the lines the client cuts out of its buffer are the records the provider
\* wrote, each once and in order, and the buffer stays within its bound: for every plan,
\* every number of clients, processes and pairs, and every size of a read, a record and
\* the compaction (ControlStreamBuffer, PipeClient::ReadControlMessageUtf8).
THEOREM FramesAreRecordsHolds == Spec => []FramesAreRecords
<1> DEFINE Inv == SpokenInv /\ FramesInv /\ OwnTyped
<1>1. Init => Inv
  BY SpokenAtFirst, NotHeldAtFirst, OwnAtFirst DEF FramesInv
<1>2. Inv /\ [Next]_vars => Inv'
  BY SpokenStep, FramesStep, OwnStep
<1>3. Inv => FramesAreRecords
  <2> SUFFICES ASSUME Inv
               PROVE  FramesAreRecords
    OBVIOUS
  <2>1. TypeOK
    BY EverythingTyped
  <2>2. /\ lines \in Seq(Seq(Nat)) /\ sent \in Seq(Record) /\ stream \in StreamType
        /\ CompactAt \in Nat /\ CompactAt >= 1 /\ ChunkBytes \in Nat /\ ChunkBytes >= 1
        /\ MaxRecordBytes \in Nat
    BY ClientAssumption DEF SpokenInv, SayingTyped, HearingTyped
  <2>3. CASE Held
    <3>1. BufferStands /\ LinesAreRecords
      BY <2>3 DEF FramesInv
    <3>2. \A i \in DOMAIN lines : i \in DOMAIN sent /\ lines[i] = Text(i, sent[i].event)
      <4>1. /\ DOMAIN lines = 1 .. Len(lines) /\ DOMAIN sent = 1 .. Len(sent)
            /\ Len(lines) \in Nat /\ Len(sent) \in Nat
        BY <2>2
      <4> SUFFICES ASSUME NEW i \in 1 .. Len(lines)
                   PROVE  i \in 1 .. Len(sent) /\ lines[i] = Text(i, sent[i].event)
        BY <4>1
      <4> QED
        BY <3>1, <4>1 DEF LinesAreRecords
    <3>3. stream.readOffset < CompactAt /\ UnconsumedBytes(stream) <= MaxRecordBytes + ChunkBytes
      BY <3>1 DEF BufferStands, OffsetsStand
    <3>4. Len(stream.buffer) \in Nat /\ stream.readOffset \in Nat
      BY <2>2 DEF StreamType
    <3>5. Len(stream.buffer) < CompactAt + MaxRecordBytes + ChunkBytes
      BY <2>2, <3>3, <3>4 DEF UnconsumedBytes
    <3> QED
      BY <2>1, <3>2, <3>5 DEF FramesAreRecords
  <2>4. CASE ~Held
    <3>1. lines = <<>> /\ stream.buffer = <<>>
      BY <2>4 DEF SpokenInv, Silence, NothingSaid, EmptyControlBuffer
    <3>2. DOMAIN lines = {} /\ Len(stream.buffer) = 0
      BY <3>1
    <3> QED
      BY <2>1, <2>2, <3>2 DEF FramesAreRecords
  <2> QED
    BY <2>3, <2>4
<1> QED
  BY <1>1, <1>2, <1>3, PTL DEF Spec
=============================================================================
