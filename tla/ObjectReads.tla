---------------------------- MODULE ObjectReads ----------------------------
(***************************************************************************)
(* What a GET answers: GetObjectHandler of api/handler/get.go with its     *)
(* ranges and conditions, the decrypter of api/layer/encryption, which     *)
(* finds out which packages of which parts a range needs, and what PUT,    *)
(* CompleteMultipartUpload and CopyObject leave in the store and in the    *)
(* objects cache, where copies share one map of headers with their source. *)
(*                                                                         *)
(* A byte is a record, not a number: what was stored says whose byte it    *)
(* is.  Sizes are those of the model: a package holds BlockSize bytes and  *)
(* Overhead more when it is encrypted; uint64 wraps at Wrap.  FrostFS      *)
(* stores what it is sent, whatever size was announced.                    *)
(***************************************************************************)
EXTENDS Naturals, Sequences, FiniteSets, SequencesExt

CONSTANTS
  Keys,        \* keys of customers
  None,        \* no key, no range, nothing cached
  Sizes,       \* sizes of objects that are put in one piece
  Uploads,     \* sizes of the parts of multipart uploads
  Dates,       \* when objects are put, in half seconds
  BlockSize, Overhead, Wrap,
  MaxObjects   \* bound: objects ever stored

VARIABLES
  stored,   \* the objects in FrostFS, by id: [payload, date, head]
  texts,    \* texts[o]: what the client of object o sent (history)
  cached,   \* objects cache: [size, date, map], or None
  maps,     \* the header maps that cached objects refer to
  spoiled   \* objects an encrypted copy has to do with (history)

vars == <<stored, texts, cached, maps, spoiled>>

Ids == 1 .. MaxObjects

---------------------------------------------------------------------------
(* sio's format: packages that know their key, their stream and their      *)
(* place in it.                                                            *)
FullBlockSize == BlockSize + Overhead

Least(a, b) == IF a < b THEN a ELSE b
SumOf(sizes) == FoldLeft(LAMBDA a, b : a + b, 0, sizes)
Less(a, b) == (a + (Wrap - (b % Wrap))) % Wrap

EncryptedSize(n) == n + Overhead * ((n + BlockSize - 1) \div BlockSize)
DecryptedSize(n) == n - Overhead * ((n + FullBlockSize - 1) \div FullBlockSize)

Encrypt(text, key, stream) ==
  [i \in 1 .. EncryptedSize(Len(text)) |->
     LET k == (i - 1) \div FullBlockSize
     IN [key |-> key, stream |-> stream, seq |-> k, at |-> (i - 1) % FullBlockSize,
         text |-> SubSeq(text, k * BlockSize + 1, Least((k + 1) * BlockSize, Len(text)))]]

Package(bytes, j) == SubSeq(bytes, j * FullBlockSize + 1,
                            Least((j + 1) * FullBlockSize, Len(bytes)))

Opens(p, key, stream, seq) ==
  /\ p # <<>> /\ Len(p) = Len(p[1].text) + Overhead
  /\ \A i \in DOMAIN p : p[i] = [key |-> key, stream |-> stream, seq |-> seq,
                                 at |-> i - 1, text |-> p[1].text]

(* The text that n packages of a stream hold, which begins with package    *)
(* seq; it ends before the first one that does not open.                   *)
Opened(bytes, key, seq, n) ==
  LET good(j) == Opens(Package(bytes, j), key, bytes[1].stream, seq + j)
      open == {m \in 0 .. n : \A j \in 0 .. m - 1 : good(j)}
      upto == CHOOSE m \in open : \A l \in open : l <= m
  IN FlattenSeq([j \in 1 .. upto |-> Package(bytes, j - 1)[1].text])

---------------------------------------------------------------------------
FirstIn(S, otherwise) == IF S = {} THEN otherwise ELSE CHOOSE i \in S : \A j \in S : i <= j

(* Part p with the text and the packages before it, of which sum and enc   *)
(* precede part `from`.                                                    *)
Place(sizes, from, sum, enc, p) ==
  [part |-> IF p > Len(sizes) THEN 1 ELSE p,
   sum |-> sum + SumOf(SubSeq(sizes, from, p - 1)),
   enc |-> enc + SumOf([j \in 1 .. p - from |-> EncryptedSize(sizes[from + j - 1])])]

(* Mutant: a byte beyond the last one of a part is taken to lie in it.     *)
LocateLoose(sizes, from, sum, enc, x) ==
  LET upto(i) == sum + SumOf(SubSeq(sizes, from, i))
  IN Place(sizes, from, sum, enc,
           FirstIn({i \in from .. Len(sizes) : x <= upto(i)}, Len(sizes) + 1))

(* The first part from `from` on in which byte x lies, counted from sum,   *)
(* with what precedes it; the first part of all if it lies in none.        *)
Locate(sizes, from, sum, enc, x) ==
  LET upto(i) == sum + SumOf(SubSeq(sizes, from, i))
  IN Place(sizes, from, sum, enc,
           FirstIn({i \in from .. Len(sizes) : x < upto(i)}, Len(sizes) + 1))

(* Decrypter.initRangeParams for a range of an object made of parts, which *)
(* begins in part s and ends in part e.                                    *)
RangeParams(sizes, start, end, s, e) ==
  LET seq == Less(start, s.sum) \div BlockSize
      offset == s.enc + seq * FullBlockSize
      ends == Least(e.enc + (Less(end, e.sum) \div BlockSize + 1) * FullBlockSize,
                    e.enc + EncryptedSize(sizes[e.part]))
      length == Less(ends, offset)
      decLen == Less(end + 1, start)
  IN [skip |-> Less(start, s.sum) % BlockSize, seq |-> seq, offset |-> offset,
      length |-> length, decLen |-> decLen,
      encPart |-> Least(Less(EncryptedSize(sizes[1]), seq * FullBlockSize), length),
      remain |-> Least(Less(sizes[1] + s.sum, start), decLen)]

ParamsFrom(s, sizes, start, end) ==
  RangeParams(sizes, start, end, s, Locate(sizes, s.part, s.sum, s.enc, end))

InitRangeParams(sizes, start, end) ==
  ParamsFrom(Locate(sizes, 1, 0, 0, start), sizes, start, end)

(* Without a range: all of the one part there is.                          *)
WholeParams(size) ==
  [skip |-> 0, seq |-> 0, offset |-> 0, length |-> EncryptedSize(size),
   decLen |-> size, encPart |-> EncryptedSize(size), remain |-> size]

(* Decrypter.Read until it has decLen bytes: what it has after its first c *)
(* parts, where parts are counted from 1 wherever the range begins.        *)
ReadParts(payload, key, sizes, p) ==
  LET Part[c \in 0 .. Len(sizes)] ==
        IF c = 0
        THEN [out |-> <<>>, pos |-> 0, remain |-> p.remain, encPart |-> p.encPart,
              seq |-> p.seq, skip |-> p.skip, failed |-> FALSE]
        ELSE LET x == Part[c - 1]
                 want == Least(x.remain, p.decLen - Len(x.out))
                 bytes == SubSeq(payload, x.pos + 1, Least(x.pos + x.encPart, Len(payload)))
                 n == (x.skip + want + BlockSize - 1) \div BlockSize
                 text == Opened(bytes, key, x.seq, n)
             IN IF x.failed \/ p.decLen = Len(x.out) THEN x
                ELSE [out |-> x.out \o SubSeq(text, x.skip + 1, Least(x.skip + want, Len(text))),
                      pos |-> x.pos + Least(n * FullBlockSize, Len(bytes)),
                      remain |-> IF c = Len(sizes) THEN 0 ELSE sizes[c + 1],
                      encPart |-> IF c = Len(sizes) THEN 0 ELSE EncryptedSize(sizes[c + 1]),
                      seq |-> 0, skip |-> 0, failed |-> Len(text) < x.skip + want]
  IN Part[Len(sizes)]

(* A range of the payload; none at all is all of it.                       *)
ReadObject(payload, offset, length) ==
  IF offset + length = 0 THEN payload
  ELSE SubSeq(payload, offset + 1, offset + length)
InPayload(payload, offset, length) ==
  offset + length = 0 \/ (length > 0 /\ offset + length <= Len(payload))

SizesOf(info) ==
  IF info.head.parts = <<>> THEN <<DecryptedSize(info.size)>> ELSE info.head.parts

ParamsOf(info, key, range) ==
  IF key = None
  THEN IF range = None THEN [offset |-> 0, length |-> 0]
       ELSE [offset |-> range[1], length |-> range[2] - range[1] + 1]
  ELSE IF range = None /\ info.head.parts = <<>> THEN WholeParams(SizesOf(info)[1])
  ELSE InitRangeParams(SizesOf(info), IF range = None THEN 0 ELSE range[1],
                       IF range = None THEN Less(info.head.dec, 1) ELSE range[2])

ReadAs(payload, key, sizes, p) ==
  IF ~InPayload(payload, p.offset, p.length) THEN [out |-> <<>>, failed |-> TRUE]
  ELSE IF key = None THEN [out |-> ReadObject(payload, p.offset, p.length), failed |-> FALSE]
  ELSE ReadParts(ReadObject(payload, p.offset, p.length), key, sizes, p)

(* layer.GetObject: the bytes written, and whether it came to its end.     *)
GetObject(info, payload, key, range) ==
  ReadAs(payload, key, SizesOf(info), ParamsOf(info, key, range))

---------------------------------------------------------------------------
(* A range header is <<from, to>>, where one may be left out; <<>> is a    *)
(* range that fetchRangeHeader refuses.                                    *)
FetchRangeHeader(h, size) ==
  LET start == IF h[1] = None THEN Less(size, h[2]) ELSE h[1]
      end == IF None \in {h[1], h[2]} THEN size - 1 ELSE Least(h[2], size - 1)
  IN IF h = None THEN None
     ELSE IF size = 0 THEN <<>>
     ELSE IF start > end \/ start > size THEN <<>>
     ELSE <<start, end>>

(* checkPreconditions: dates are HTTP's, whole seconds.                    *)
Unconditional == [match |-> None, noneMatch |-> None, modified |-> None, unmodified |-> None]
CheckPreconditions(info, c) ==
  IF c.match # None /\ c.match # info.etag THEN 412
  ELSE IF c.noneMatch # None /\ c.noneMatch = info.etag THEN 304
  ELSE IF c.modified # None /\ info.date < c.modified THEN 304
  ELSE IF c.unmodified # None /\ info.date > c.unmodified /\ c.match = None THEN 412
  ELSE 200

(* Params.MatchObjectEncryption.                                           *)
MatchObjectEncryption(key, head) == key = head.key

Refused(code) == [code |-> code, length |-> 0, total |-> 0, date |-> 0, body |-> <<>>,
                  failed |-> FALSE]

(* GetObjectHandler: the answer from what is known of an object.           *)
AnswerRange(info, key, c, range, got) ==
  IF CheckPreconditions(info, c) # 200 THEN Refused(CheckPreconditions(info, c))
  ELSE IF ~MatchObjectEncryption(key, info.head) THEN Refused(400)
  ELSE IF range = <<>> THEN Refused(416)
  ELSE [code |-> IF range = None THEN 200 ELSE 206,
        length |-> IF range # None THEN range[2] - range[1] + 1
                   ELSE IF info.head.key = None THEN info.size ELSE info.head.dec,
        total |-> IF range = None THEN 0 ELSE info.size,
        date |-> info.date, body |-> got.out, failed |-> got.failed]

AnswerFor(info, payload, key, c, range) ==
  AnswerRange(info, key, c, range, GetObject(info, payload, key, range))

Answer(info, payload, key, h, c) ==
  AnswerFor(info, payload, key, c,
            FetchRangeHeader(h, IF key = None THEN info.size ELSE info.head.dec))

(* formUploadAttributes: a page of the parts from the marker on, 0 being   *)
(* none, and the marker of the next.                                       *)
AttributesPage(parts, max, marker) ==
  LET rest == IF marker = 0 THEN parts ELSE SubSeq(parts, marker, Len(parts))
      first == IF marker = 0 THEN 1 ELSE marker
  IN [parts |-> SubSeq(rest, 1, Least(max, Len(rest))),
      next |-> IF Len(rest) > max THEN first + max ELSE 0]

---------------------------------------------------------------------------
(* objectInfoFromMeta: what a HEAD of FrostFS says of object o.            *)
Meta(o) ==
  [etag |-> stored[o].payload, size |-> Len(stored[o].payload),
   date |-> 2 * (stored[o].date \div 2), head |-> stored[o].head]

(* GetExtendedObjectInfo: from the cache, if it is there.                  *)
Info(o) ==
  IF cached[o] = None THEN Meta(o)
  ELSE [etag |-> stored[o].payload, size |-> cached[o].size, date |-> cached[o].date,
        head |-> maps[cached[o].map]]

Plain == [key |-> None, dec |-> 0, parts |-> <<>>]

Init ==
  /\ stored = <<>> /\ texts = <<>> /\ spoiled = {}
  /\ cached = [o \in Ids |-> None]
  /\ maps = [o \in Ids |-> Plain]

New == Len(stored) + 1
Text(o, from, n) == [i \in 1 .. n |-> [of |-> o, byte |-> from + i]]

(* Mutant: the size that is cached is the one before encryption.           *)
KnownSizePlain(size, key) == size

(* PutObject replaces the size it was given by the encrypted one, which is *)
(* the one it caches.                                                      *)
KnownSize(size, key) == IF key = None THEN size ELSE EncryptedSize(size)

(* The object that PutObject stores.                                       *)
Store(text, payload, date, head) ==
  /\ New \in Ids
  /\ stored' = Append(stored, [payload |-> payload, date |-> date, head |-> head])
  /\ texts' = Append(texts, text)

Entry(size, date, map) == [size |-> size, date |-> date, map |-> map]

(* PutObjectHandler.                                                       *)
Put(size, key, date) ==
  LET text == Text(New, 0, size)
      head == [Plain EXCEPT !.key = key, !.dec = IF key = None THEN 0 ELSE size]
  IN /\ Store(text, IF key = None THEN text ELSE Encrypt(text, key, <<New, 1>>), date, head)
     /\ cached' = [cached EXCEPT ![New] = Entry(KnownSize(size, key), date, New)]
     /\ maps' = [maps EXCEPT ![New] = head]
     /\ UNCHANGED spoiled

(* CompleteMultipartUpload: the parts as they were stored, one after the   *)
(* other, and their sizes in a header.                                     *)
Complete(sizes, key, date) ==
  LET text(i) == Text(New, SumOf(SubSeq(sizes, 1, i - 1)), sizes[i])
      part(i) == IF key = None THEN text(i) ELSE Encrypt(text(i), key, <<New, i>>)
      payload == FlattenSeq([i \in DOMAIN sizes |-> part(i)])
      head == [key |-> key, dec |-> IF key = None THEN 0 ELSE SumOf(sizes), parts |-> sizes]
  IN /\ Store(Text(New, 0, SumOf(sizes)), payload, date, head)
     /\ cached' = [cached EXCEPT ![New] = Entry(Len(payload), date, New)]
     /\ maps' = [maps EXCEPT ![New] = head]
     /\ UNCHANGED spoiled

(* GetExtendedObjectInfo: what any request that looks at an object leaves  *)
(* in the cache.                                                           *)
Loaded(o) ==
  IF cached[o] # None THEN [cached |-> cached, maps |-> maps]
  ELSE [cached |-> [cached EXCEPT ![o] = Entry(Meta(o).size, Meta(o).date, o)],
        maps |-> [maps EXCEPT ![o] = stored[o].head]]

Look(o) ==
  /\ cached[o] = None
  /\ cached' = Loaded(o).cached /\ maps' = Loaded(o).maps
  /\ UNCHANGED <<stored, texts, spoiled>>

(* isCopyingToItselfForbidden.                                             *)
ForbiddenToItself(itself, unversioned, replace) == itself /\ unversioned /\ ~replace

CopyRefused(o, replace, key, itself, unversioned, met) ==
  /\ \/ ForbiddenToItself(itself, unversioned, replace)
     \/ ~MatchObjectEncryption(key, Info(o).head)
     \/ ~met
  /\ cached' = Loaded(o).cached /\ maps' = Loaded(o).maps
  /\ UNCHANGED <<stored, texts, spoiled>>

Sharers(known, map) == {x \in DOMAIN stored : known[x] # None /\ known[x].map = map}

(* The copy of o, of which info is known, once it has been read.           *)
PutCopy(o, info, replace, key, date, head, map, got) ==
  /\ maps' = [Loaded(o).maps EXCEPT ![map] = head]
  /\ spoiled' = spoiled \cup (IF ~got.failed /\ (key # None \/ o \in spoiled) THEN {New} ELSE {})
                        \cup (IF key # None /\ ~replace THEN Sharers(Loaded(o).cached, map)
                              ELSE {})
  /\ \/ /\ got.failed
        /\ cached' = Loaded(o).cached
        /\ UNCHANGED <<stored, texts>>
     \/ /\ ~got.failed
        /\ Store(texts[o], IF key = None THEN got.out ELSE Encrypt(got.out, key, <<New, 1>>),
                 date, head)
        /\ cached' = [Loaded(o).cached EXCEPT ![New] =
                        Entry(KnownSize(info.size, key), date, map)]

HeadOfCopy(info, replace, key) ==
  LET old == IF replace THEN Plain ELSE info.head
  IN IF key = None THEN old ELSE [old EXCEPT !.key = key, !.dec = info.size]

CopyOf(o, info, replace, key, date, seen, head) ==
  PutCopy(o, info, replace, key, date, head,
          IF replace THEN New ELSE Loaded(o).cached[o].map,
          GetObject(IF seen THEN [info EXCEPT !.head = head] ELSE info,
                    stored[o].payload, key, None))

(* CopyObjectHandler and CopyObject, if the conditions it is asked under   *)
(* are met (checkPreconditions).  Without a new set of metadata the        *)
(* headers of the copy are the very map of the cached source, into which   *)
(* PutObject writes the decrypted size, which it takes to be that of the   *)
(* stored source; whether the goroutine that reads the source sees it, no  *)
(* one can say.                                                            *)
Copy(o, replace, key, itself, unversioned, met, date, seen) ==
  /\ New \in Ids
  /\ ~ForbiddenToItself(itself, unversioned, replace)
  /\ MatchObjectEncryption(key, Info(o).head) /\ met
  /\ seen => key # None /\ ~replace
  /\ CopyOf(o, Info(o), replace, key, date, seen, HeadOfCopy(Info(o), replace, key))

(* Entries expire; here those that share a map do it together.             *)
Expire ==
  \E m \in Ids :
    /\ \E o \in Ids : cached[o] # None /\ cached[o].map = m
    /\ cached' = [o \in Ids |-> IF cached[o] # None /\ cached[o].map = m THEN None
                                ELSE cached[o]]
    /\ UNCHANGED <<stored, texts, maps, spoiled>>

Next ==
  \/ \E key \in Keys \cup {None}, date \in Dates :
       \/ \E size \in Sizes : Put(size, key, date)
       \/ \E sizes \in Uploads : Complete(sizes, key, date)
  \/ \E o \in DOMAIN stored, key \in Keys \cup {None},
       replace, itself, unversioned, met \in BOOLEAN :
       \/ CopyRefused(o, replace, key, itself, unversioned, met)
       \/ \E date \in Dates, seen \in BOOLEAN :
            Copy(o, replace, key, itself, unversioned, met, date, seen)
  \/ \E o \in DOMAIN stored : Look(o)
  \/ Expire

Spec == Init /\ [][Next]_vars

---------------------------------------------------------------------------
(* Properties *)

Heads == [key : Keys \cup {None}, dec : Nat, parts : Uploads \cup {<<>>}]

(* Whatever is cached is an object that is stored, and has a header map.   *)
TypeOK ==
  /\ Len(stored) <= MaxObjects /\ Len(texts) = Len(stored)
  /\ \A o \in DOMAIN stored : stored[o].head \in Heads /\ stored[o].date \in Dates
  /\ maps \in [Ids -> Heads]
  /\ \A o \in Ids : cached[o] # None =>
       /\ o \in DOMAIN stored
       /\ cached[o].map \in Ids /\ cached[o].size \in Nat /\ cached[o].date \in Nat
  /\ spoiled \subseteq DOMAIN stored

(* RFC 7233: the bytes that a range header asks for, None if there are     *)
(* none of them.                                                           *)
Wanted(h, size) ==
  IF h[1] = None
  THEN IF size = 0 \/ h[2] = 0 THEN None ELSE <<size - Least(h[2], size), size - 1>>
  ELSE IF h[1] >= size \/ (h[2] # None /\ h[2] < h[1]) THEN None
  ELSE <<h[1], IF h[2] = None THEN size - 1 ELSE Least(h[2], size - 1)>>

Headers(size) == {h \in ((0 .. size + 2) \cup {None}) \X ((0 .. size + 2) \cup {None}) :
                    h # <<None, None>>}

(* The decrypter counts parts from the first one wherever a range begins:  *)
(* it takes the size of the first for that of the one it begins in.        *)
Lags(parts, from) ==
  /\ parts # <<>> /\ from >= parts[1]
  /\ \E i \in DOMAIN parts : IF i < Len(parts) THEN parts[i] # parts[1] ELSE parts[i] > parts[1]

WholeIsServed(got, text) ==
  got.code = 200 /\ got.body = text /\ got.length = Len(text) /\ ~got.failed

PieceIsServed(o, got, text, want) ==
  \/ stored[o].head.key # None /\ Lags(stored[o].head.parts, want[1])
  \/ /\ got.code = 206 /\ ~got.failed
     /\ got.body = SubSeq(text, want[1] + 1, want[2] + 1)
     /\ got.length = Len(got.body)
     /\ stored[o].head.key = None => got.total = Len(text)

(* With its key, an object is read back as it was sent, as is an object    *)
(* copied from it, and so is every range of it, across packages and parts; *)
(* other ranges are refused.  It isn't so of encrypted copies, which       *)
(* announce the size of the encrypted source, and of ranges that begin     *)
(* behind the first of parts of different sizes; a suffix longer than the  *)
(* object is refused, and the whole size a range is told is the encrypted  *)
(* one.                                                                    *)
RangeIsServed ==
  \A o \in DOMAIN stored : o \notin spoiled =>
    LET text == texts[o]
        Get(h) == Answer(Info(o), stored[o].payload, stored[o].head.key, h, Unconditional)
    IN /\ WholeIsServed(Get(None), text)
       /\ \A h \in Headers(Len(text)) :
            LET want == Wanted(h, Len(text))
            IN IF want = None \/ (h[1] = None /\ h[2] > Len(text)) THEN Get(h).code = 416
               ELSE PieceIsServed(o, Get(h), text, want)

(* Requests learn of an object from the cache what they would learn from   *)
(* FrostFS, whoever copied it in the meantime, unless an encrypted copy    *)
(* has been written into its headers.  If it was put without a signed      *)
(* date, only the cache knows the fraction of its second; that matters to  *)
(* If-Unmodified-Since and to no other condition.                          *)
CacheIsTransparent ==
  \A o \in DOMAIN stored \ spoiled :
    /\ stored[o].date % 2 = 0 => Info(o) = Meta(o)
    /\ \A etag, other \in {None} \cup {stored[q].payload : q \in DOMAIN stored},
          date \in {None} \cup {d \in 0 .. 4 : d % 2 = 0} :
         LET c == [match |-> etag, noneMatch |-> other, modified |-> date, unmodified |-> None]
         IN CheckPreconditions(Info(o), c) = CheckPreconditions(Meta(o), c)

Walk(parts, max) ==
  LET From[m \in 0 .. Len(parts)] ==
        LET p == AttributesPage(parts, max, m)
        IN IF p.next = 0 THEN p.parts ELSE p.parts \o From[p.next]
  IN From[0]

(* The pages of GetObjectAttributes, one after the other, are all of the   *)
(* parts that the upload was completed from.                               *)
AttributePagesAreParts ==
  \A o \in DOMAIN stored, max \in 1 .. 3 :
    Walk(Info(o).head.parts, max) = stored[o].head.parts
=============================================================================
