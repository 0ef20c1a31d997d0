----------------------------- MODULE ImageRows -----------------------------
(***************************************************************************)
(* JPEGDEC and PNGdec as the firmware knows them, over a decoder of the    *)
(* host: JPEGDEC.h, PNGdec.h and SimulatorImageDecode.cpp.  A file is      *)
(* opened and read by callbacks of the firmware and the rows of the        *)
(* picture go to another.                                                  *)
(***************************************************************************)
EXTENDS Naturals, Sequences, SequencesExt

NoImage == [width |-> 0, height |-> 0, channels |-> 0, hasAlpha |-> FALSE, pixels |-> <<>>]

(***************************************************************************)
(* stb_image: what the bytes are a picture of, by the channels asked for.  *)
(* It decodes a file that is whole.                                        *)
(***************************************************************************)
Stbi(file, bytes) ==
  IF bytes = file.bytes /\ file.picture THEN [ok |-> TRUE, width |-> file.width, height |-> file.height,
                                              sourceChannels |-> file.sourceChannels]
  ELSE [ok |-> FALSE]
Sample(x, y, c) == <<x, y, c>>  \* each byte of a picture is told by its place and its channel
SamplesOf(width, height, channels) ==
  [i \in 1 .. width * height * channels |->
     LET pixel == (i - 1) \div channels IN
     Sample(pixel % width, pixel \div width, (i - 1) % channels)]

DecodeImageBytes(file, bytes, channels) ==
  LET decoded == Stbi(file, bytes)
  IN IF bytes = <<>> \/ ~decoded.ok THEN NoImage
     ELSE [width |-> decoded.width, height |-> decoded.height, channels |-> channels,
           hasAlpha |-> decoded.sourceChannels \in {2, 4},
           pixels |-> SamplesOf(decoded.width, decoded.height, channels)]

-----------------------------------------------------------------------------
(***************************************************************************)
(* open(): the callbacks say a size and give the bytes in pieces; a piece  *)
(* of nothing ends them.  The file is closed whenever it was opened.       *)
(***************************************************************************)
Failed(closed) == [ok |-> FALSE, image |-> NoImage, closed |-> closed]
ReadAll(file, size, pieces) ==
  FoldLeft(LAMBDA r, piece :
             IF r.over \/ Len(r.bytes) >= size \/ piece = 0 THEN [r EXCEPT !.over = TRUE]
             ELSE LET from == Len(r.bytes)
                      to == IF from + piece < size THEN from + piece ELSE size
                  IN [r EXCEPT !.bytes = @ \o SubSeq(file.bytes, from + 1, to)],
           [bytes |-> <<>>, over |-> FALSE], pieces).bytes
OpenImage(file, callbacks, handle, size, pieces, channels) ==
  IF ~callbacks THEN Failed(0)
  ELSE IF ~handle \/ size <= 0 THEN Failed(IF handle THEN 1 ELSE 0)
  ELSE LET image == DecodeImageBytes(file, ReadAll(file, size, pieces), channels)
       IN [ok |-> image # NoImage, image |-> image, closed |-> 1]
JpegOpen(file, callbacks, handle, size, pieces) == OpenImage(file, callbacks, handle, size, pieces, 1)
PngOpen(file, callbacks, handle, size, pieces) == OpenImage(file, callbacks, handle, size, pieces, 4)

(***************************************************************************)
(* decode(): the rows that the draw callback gets.  It refuses the row it  *)
(* is told to, 0 for none, and decoding fails there.                       *)
(***************************************************************************)
Drawn(rows, refuses) ==
  IF refuses \in DOMAIN rows THEN [ok |-> FALSE, rows |-> SubSeq(rows, 1, refuses)]
  ELSE [ok |-> TRUE, rows |-> rows]
CannotDraw(image, callback) == ~callback \/ image.pixels = <<>> \/ image.width <= 0 \/ image.height <= 0
NothingDrawn == [ok |-> FALSE, rows |-> <<>>]

Denominator(scaleOption) == IF scaleOption \in {2, 4, 8} THEN scaleOption ELSE 1
Smaller(a, b) == IF a < b THEN a ELSE b
Gray(image, x, y) == image.pixels[image.width * y + x + 1]

JpegDecode(image, callback, scaleOption, refuses) ==
  LET d == Denominator(scaleOption)
      width == (image.width + d - 1) \div d
      height == (image.height + d - 1) \div d
      Row(y) == [x \in 1 .. width |->
                   Gray(image, Smaller(d * (x - 1), image.width - 1), Smaller(d * y, image.height - 1))]
  IN IF CannotDraw(image, callback) THEN NothingDrawn
     ELSE Drawn([i \in 1 .. height |-> [y |-> i - 1, pixels |-> Row(i - 1)]], refuses)

PngDecode(image, callback, refuses) ==
  LET rowStride == 4 * image.width
  IN IF CannotDraw(image, callback) THEN NothingDrawn
     ELSE Drawn([i \in 1 .. image.height |->
                   [y |-> i - 1, alpha |-> image.hasAlpha,
                    pixels |-> SubSeq(image.pixels, rowStride * (i - 1) + 1, rowStride * i)]], refuses)
=============================================================================
