------------------------------- MODULE SzFolder -------------------------------
(* A folder is decoded by a few fixed recipes (7zDec.c): CheckSupportedFolder *)
(* accepts the coder graphs there is a recipe for, SzFolder_Decode2 runs it.  *)
(* Decoded data is a term: <<"pack", k>> is packed stream k as it is stored,  *)
(* <<m, s>> what method m makes of the data s; only sizes are numbers.        *)
(* A stream is [term, size, left, whole]: a codec that reads it leaves `left` *)
(* of its `size` cells over, and makes as much of them as declared if `whole`.*)
EXTENDS Header7z

Method == [Copy |-> <<>>, Delta |-> <<3>>, ARM64 |-> <<10>>, RISCV |-> <<11>>, LZMA2 |-> <<33>>,
           LZMA |-> <<3, 1, 1>>, PPMD |-> <<3, 4, 1>>, BCJ |-> <<3, 3, 1, 3>>, BCJ2 |-> <<3, 3, 1, 27>>,
           PPC |-> <<3, 3, 2, 5>>, IA64 |-> <<3, 3, 4, 1>>, ARM |-> <<3, 3, 5, 1>>,
           ARMT |-> <<3, 3, 7, 1>>, SPARC |-> <<3, 3, 8, 5>>, AES |-> <<6, 241, 7, 1>>]
Name(c) == IF \E m \in DOMAIN Method : Method[m] = c.id
           THEN CHOOSE m \in DOMAIN Method : Method[m] = c.id ELSE "other"

MainMethods == {"Copy", "LZMA", "LZMA2", "PPMD"}
FilterMethods == {"Delta", "BCJ", "PPC", "IA64", "SPARC", "ARM", "RISCV", "ARM64", "ARMT"}
IsMain(c) == Name(c) \in MainMethods
IsSupportedCoder(c) == c.numStreams = 1 /\ IsMain(c)
IsBcj2(c) == Name(c) = "BCJ2" /\ c.numStreams = 4

\* Coders are numbered from 0, as bonds and packed streams number them; -1: there is none.
Coder(f, i) == f.coders[i + 1]
Indices(f) == 0..Len(f.coders) - 1
FindAesCoder(f) == IF \E i \in Indices(f) : Name(Coder(f, i)) = "AES"
                   THEN CHOOSE i \in Indices(f) : /\ Name(Coder(f, i)) = "AES"
                                                  /\ \A j \in 0..i - 1 : Name(Coder(f, j)) # "AES"
                   ELSE -1
\* The last coder, but the cipher, that is (not) a main method.
LastOf(f, main) == LET s == {i \in Indices(f) \ {FindAesCoder(f)} : IsMain(Coder(f, i)) = main}
                   IN IF s = {} THEN -1 ELSE CHOOSE i \in s : \A j \in s : j <= i

B(i, o) == [in |-> i, out |-> o]

AesAlone(f) == Len(f.coders) = 1 /\ f.packStreams = <<0>>
AesAndMain(f) ==
  LET a == FindAesCoder(f)
      main == 1 - a
  IN Len(f.coders) = 2 /\ IsSupportedCoder(Coder(f, main)) /\ f.packStreams = <<a>> /\ f.bonds = <<B(main, a)>>
AesMainFilter(f) ==
  LET main == LastOf(f, TRUE)
      filter == LastOf(f, FALSE)
  IN /\ Len(f.coders) = 3 /\ main >= 0 /\ filter >= 0
     /\ Coder(f, main).numStreams = 1 /\ Coder(f, filter).numStreams = 1
     /\ f.packStreams = <<FindAesCoder(f)>> /\ Name(Coder(f, filter)) \in FilterMethods

MainAlone(f) == Len(f.coders) = 1 /\ f.packStreams = <<0>>
MainAndFilter(f) ==
  /\ Len(f.coders) = 2 /\ Coder(f, 1).numStreams = 1 /\ Name(Coder(f, 1)) \in FilterMethods
  /\ f.packStreams = <<0>> /\ f.bonds = <<B(1, 0)>>
Bcj2Folder(f) ==
  /\ Len(f.coders) = 4 /\ IsSupportedCoder(Coder(f, 1)) /\ IsSupportedCoder(Coder(f, 2)) /\ IsBcj2(Coder(f, 3))
  /\ f.packStreams = <<2, 6, 1, 0>> /\ f.bonds = <<B(5, 0), B(4, 1), B(3, 2)>>

CheckSupportedFolder(f) ==
  IF FindAesCoder(f) >= 0
  THEN Coder(f, FindAesCoder(f)).numStreams = 1 /\ (AesAlone(f) \/ AesAndMain(f) \/ AesMainFilter(f))
  ELSE IsSupportedCoder(Coder(f, 0)) /\ (MainAlone(f) \/ MainAndFilter(f) \/ Bcj2Folder(f))

-----------------------------------------------------------------------------
(* What the bonds say: the output of a coder is its method, applied to what  *)
(* its inputs are bonded or packed to.                                       *)

Stream(f, c, k) == InputsOf([i \in DOMAIN f.coders |-> f.coders[i].numStreams], c) + k - 1
BondedTo(f, s) == {b \in DOMAIN f.bonds : f.bonds[b].in = s}
PackedTo(f, s) == <<"pack", CHOOSE k \in DOMAIN f.packStreams : f.packStreams[k] = s>>
InputAt(f, s, below) ==
  IF BondedTo(f, s) = {} THEN PackedTo(f, s) ELSE below[f.bonds[CHOOSE b \in BondedTo(f, s) : TRUE].out]
Outputs(f, below) ==
  [c \in Indices(f) |-> <<Name(Coder(f, c)), [k \in 1..Coder(f, c).numStreams |-> InputAt(f, Stream(f, c, k), below)]>>]
\* A chain of coders is no longer than there are coders.
Meaning(f) ==
  Fold(Len(f.coders), [c \in Indices(f) |-> <<"cycle">>], LAMBDA below, k : Outputs(f, below))[f.unpackStream]

-----------------------------------------------------------------------------
(* Decoding.  A result is [ok, term].                                        *)

Result(ok, term) == [ok |-> ok, term |-> IF ok THEN term ELSE <<"none">>]

\* What Lzma_..., Lzma2_... and Ppmd7_... want of their properties.
GoodProps(c) ==
  CASE Name(c) = "LZMA" -> Len(c.props) >= 5 /\ c.props[1] < 225
    [] Name(c) = "LZMA2" -> Len(c.props) = 1 /\ c.props[1] <= 40
    [] Name(c) = "PPMD" -> Len(c.props) = 5 /\ c.props[1] \in 2..64
    [] OTHER -> TRUE

\* SzDecodeLzma, SzDecodeLzma2, SzDecodePpmd: all of the output, and no more left over of the
\* input than the padding of a cipher block.
DecodeMain(c, s, padded) ==
  Result(GoodProps(c) /\ s.whole /\ (IF padded THEN s.left < 16 ELSE s.left = 0), <<Name(c), <<s.term>>>>)

SzDecodeCopy(s, n) == Result(n <= s.size, <<"Copy", <<s.term>>>>)

\* A start address in the properties: none, or four bytes aligned to `align`.
StartAddress(c, align) == c.props = <<>> \/ (Len(c.props) = 4 /\ c.props[1] % align = 0)

Filtered(c, r, Fits(_)) == IF r.ok THEN Result(Fits(c), <<Name(c), <<r.term>>>>) ELSE r

\* The filter of a folder without a cipher.
FilterFits(c) ==
  CASE Name(c) = "Delta" -> Len(c.props) = 1
    [] Name(c) = "ARM64" -> StartAddress(c, 4)
    [] Name(c) = "RISCV" -> StartAddress(c, 2)
    [] OTHER -> c.props = <<>>

\* The filter behind a cipher: three are applied, the others CheckSupportedFolder lets through are not.
AesFilterFits(c) ==
  CASE Name(c) = "Delta" -> Len(c.props) = 1
    [] Name(c) = "ARM64" -> StartAddress(c, 4)
    [] OTHER -> TRUE
AesFiltered(c, r) == IF Name(c) \in {"Delta", "ARM64", "BCJ"} THEN Filtered(c, r, AesFilterFits) ELSE r

DecodeAes(f, packs, outSize, password) ==
  LET s == [packs[1] EXCEPT !.term = <<"AES", <<@>>>>]
      main == LastOf(f, TRUE)
      filter == LastOf(f, FALSE)
      r == IF Name(Coder(f, main)) = "Copy" THEN SzDecodeCopy(s, outSize)
           ELSE DecodeMain(Coder(f, main), s, TRUE)
  IN IF ~password THEN Result(FALSE, <<>>)
     ELSE IF Len(f.coders) = 1 THEN Result(s.size >= outSize, s.term)
     ELSE IF filter >= 0 THEN AesFiltered(Coder(f, filter), r) ELSE r

\* A main method, without a cipher, to a buffer of outSize cells.
DecodePlain(c, s, outSize) ==
  IF Name(c) = "Copy" THEN (IF s.size = outSize THEN SzDecodeCopy(s, s.size) ELSE Result(FALSE, <<>>))
  ELSE DecodeMain(c, s, FALSE)

\* A mutant: the buffers of the first two coders change places.
DecodeBcj2Swapped(f, packs, sizes, outSize) ==
  LET index == <<3, 2, 0>>
      d(ci) == DecodePlain(Coder(f, ci), packs[index[ci + 1] + 1], sizes[ci + 1])
  IN Result(/\ sizes[3] <= outSize /\ \A ci \in 0..2 : d(ci).ok
            /\ sizes[1] % 4 = 0 /\ sizes[2] % 4 = 0 /\ sizes[1] + sizes[2] + sizes[3] = outSize,
            <<"BCJ2", <<d(2).term, d(0).term, d(1).term, packs[2].term>>>>)

\* Three main methods, then BCJ2 of what they made: coders 0 and 1 into buffers of their own,
\* coder 2 into the end of the output, the range coder's stream as it is.
DecodeBcj2(f, packs, sizes, outSize) ==
  LET index == <<3, 2, 0>>
      d(ci) == DecodePlain(Coder(f, ci), packs[index[ci + 1] + 1], sizes[ci + 1])
  IN Result(/\ sizes[3] <= outSize /\ \A ci \in 0..2 : d(ci).ok
            /\ sizes[1] % 4 = 0 /\ sizes[2] % 4 = 0 /\ sizes[1] + sizes[2] + sizes[3] = outSize,
            <<"BCJ2", <<d(2).term, d(1).term, d(0).term, packs[2].term>>>>)

SzFolder_Decode2(f, packs, sizes, outSize, password) ==
  IF ~CheckSupportedFolder(f) THEN Result(FALSE, <<>>)
  ELSE IF FindAesCoder(f) >= 0 THEN DecodeAes(f, packs, outSize, password)
  ELSE IF Len(f.coders) = 4 THEN DecodeBcj2(f, packs, sizes, outSize)
  ELSE LET r == DecodePlain(Coder(f, 0), packs[1], outSize)
       IN IF Len(f.coders) = 2 THEN Filtered(Coder(f, 1), r, FilterFits) ELSE r

\* SzAr_DecodeFolder of folder fo of db, whose checksum is that of what it means; packs are its streams.
Verified(crc, r, f) == IF crc # None /\ r.ok /\ r.term # Meaning(f) THEN Result(FALSE, <<>>) ELSE r
DecodeItem(db, fo, item, first, packs, outSize, password) ==
  IF ~item.ok \/ item.sd # <<>> \/ item.v.unpackStream # db.folders[fo].main \/ outSize # FolderUnpackSize(db, fo)
  THEN Result(FALSE, <<>>)
  ELSE Verified(FolderCrc(db, fo),
                SzFolder_Decode2(item.v, packs, SubSeq(db.sizes, first + 1, first + db.folders[fo].coders), outSize, password),
                item.v)
SzAr_DecodeFolder(db, fo, packs, outSize, password) ==
  DecodeItem(db, fo, SzGetNextFolderItem(Cursor(db.folders[fo].data)), Before(db.folders, fo, "coders"), packs, outSize, password)

\* The cipher applied to the packed stream, main method, filter: the only graph with three
\* coders that DecodeAes has a recipe for, and the filters it knows.
HasRecipe(f) ==
  FindAesCoder(f) >= 0 /\ Len(f.coders) = 3 =>
    LET main == LastOf(f, TRUE)
        filter == LastOf(f, FALSE)
    IN /\ {f.bonds[i] : i \in 1..2} = {B(main, FindAesCoder(f)), B(filter, main)}
       /\ Name(Coder(f, filter)) \in {"Delta", "ARM64", "BCJ"}
=============================================================================
