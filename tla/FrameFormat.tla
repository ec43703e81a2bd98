----------------------------- MODULE FrameFormat -----------------------------
(***************************************************************************)
(* The geometry of a video frame (src/src/FrameFormat.cpp): dimensions and *)
(* pixel size in, line length for the DMA out.  Every setter ends with     *)
(* update_hsize(), unless it throws.                                       *)
(*                                                                         *)
(* Dimensions, bytes per pixel and line length are 16 bits wide, the word  *)
(* width 8 bits.  The float arithmetic of update_hsize() is exact for such *)
(* operands, up to the conversion of its result to 16 bits, which is       *)
(* undefined when the result does not fit: see Hsize.                      *)
(***************************************************************************)
EXTENDS Integers

CONSTANTS Widths, Heights,  \* dimensions the setters are called with
          Bpps,             \* bytes per pixel
          WordWidths        \* bytes per data word of the DMA

ASSUME FormatAssumption ==
    /\ Widths \subseteq 0 .. 2^16 - 1 /\ Heights \subseteq 0 .. 2^16 - 1
    /\ Bpps \subseteq 0 .. 2^16 - 1 /\ WordWidths \subseteq 0 .. 2^8 - 1

\* A pixel format's code: kind, bits per pixel, number.
Code(kind, bits, id) == kind * 2^24 + bits * 2^16 + id
unknown == 0
PixelFormat ==
    {Code(1, 8, id) : id \in {1} \cup 8 .. 11}
      \cup {Code(1, 16, id) : id \in {3, 5, 7, 37} \cup 12 .. 19 \cup 46 .. 49}
      \cup {Code(2, 24, id) : id \in {20, 21, 32, 33, 58, 61, 64}}
      \cup {Code(2, 32, id) : id \in {22, 23, 28, 29}}
      \cup {Code(2, 16, id) : id \in {31, 50, 53, 54, 59, 62, 65} \cup 67 .. 69}

VARIABLES dim, pix_fmt,
          bpp, pix_per_word, hsize,  \* uint16_t
          word_width,                \* uint8_t
          outcome  \* of the last call: it returned, threw, or trapped on x / 0

ffVars == <<dim, pix_fmt, bpp, word_width, pix_per_word, hsize, outcome>>

\* The constructor.
FFInit ==
    /\ dim = [width |-> 0, height |-> 0]
    /\ pix_fmt = unknown
    /\ bpp = 1 /\ word_width = 4 /\ pix_per_word = 4 /\ hsize = 0
    /\ outcome = "returned"

-----------------------------------------------------------------------------
CeilDiv_Floor(a, b) == a \div b  \* mutant: the last, partly filled word is dropped
CeilDiv(a, b) == (a + b - 1) \div b

\* _hsize as update_hsize() may leave it.  With no pixel in a word the quotient is
\* infinite, or not a number for a width of 0: converted to an integer and cut to
\* 16 bits this gives all zeros or, where conversions saturate, all ones.
Hsize(width, ppw, ww) ==
    IF ppw # 0 THEN {(CeilDiv(width, ppw) * ww) % 2^16}
    ELSE IF width = 0 \/ ww = 0 THEN {0}
    ELSE {0, 2^16 - 1}

\* update_hsize(), with the members as the setter has just left them.  A division by
\* zero bytes per pixel traps or gives 0, depending on the processor.
update_hsize ==
    \/ /\ pix_per_word' = IF bpp' = 0 THEN 0 ELSE word_width' \div bpp'
       /\ hsize' \in Hsize(dim'.width, pix_per_word', word_width')
       /\ outcome' = "returned"
    \/ /\ bpp' = 0
       /\ outcome' = "trapped"
       /\ UNCHANGED <<pix_per_word, hsize>>

update_bpp(bytes_per_pixel) ==
    /\ pix_fmt' = unknown
    /\ bpp' = bytes_per_pixel

\* update_px_fmt(), for a format that is not unknown: the bits of the code in bytes.
update_px_fmt(pixFmt) ==
    /\ pix_fmt' = pixFmt
    /\ bpp' = ((pixFmt \div 2^16) % 2^8) \div 8

\* The exception for an unknown format passes through the setter.
Throw ==
    /\ outcome' = "threw"
    /\ UNCHANGED <<pix_fmt, bpp, word_width, pix_per_word, hsize>>

-----------------------------------------------------------------------------
Dims == [width : Widths, height : Heights]

\* set_format(), given the bytes per pixel.
set_format_bpp(d, b, ww) ==
    /\ dim' = d
    /\ update_bpp(b)
    /\ word_width' = ww
    /\ update_hsize

\* set_format(), given a pixel format.  The dimensions are set before the format is
\* looked at.
set_format(d, pixFmt, ww) ==
    /\ dim' = d
    /\ \/ pixFmt = unknown /\ Throw
       \/ pixFmt # unknown /\ update_px_fmt(pixFmt) /\ word_width' = ww /\ update_hsize

\* Names of formats, as the codes of the formats they name: the table has one for every
\* format.  Any other name is NoName.
Named  == PixelFormat
NoName == -1

pix_fmt_from_str(name) == IF name \in Named THEN name ELSE unknown

set_format_str(d, name, ww) == set_format(d, pix_fmt_from_str(name), ww)

set_dim(d) ==
    /\ dim' = d
    /\ UNCHANGED <<pix_fmt, bpp, word_width>>
    /\ update_hsize

set_bpp(b) ==
    /\ update_bpp(b)
    /\ UNCHANGED <<dim, word_width>>
    /\ update_hsize

set_pix_fmt(pixFmt) ==
    /\ UNCHANGED dim
    /\ \/ pixFmt = unknown /\ Throw
       \/ pixFmt # unknown /\ update_px_fmt(pixFmt) /\ UNCHANGED word_width /\ update_hsize

set_word_width(ww) ==
    /\ word_width' = ww
    /\ UNCHANGED <<dim, pix_fmt, bpp>>
    /\ update_hsize

FFNext ==
    /\ outcome # "trapped"
    /\ \/ \E d \in Dims, ww \in WordWidths :
             \/ \E b \in Bpps : set_format_bpp(d, b, ww)
             \/ \E f \in PixelFormat \cup {unknown} : set_format(d, f, ww)
             \/ \E n \in Named \cup {NoName} : set_format_str(d, n, ww)
       \/ \E d \in Dims : set_dim(d)
       \/ \E b \in Bpps : set_bpp(b)
       \/ \E f \in PixelFormat \cup {unknown} : set_pix_fmt(f)
       \/ \E ww \in WordWidths : set_word_width(ww)

FFSpec == FFInit /\ [][FFNext]_ffVars

-----------------------------------------------------------------------------
\* What the line length should be: the fewest words with room for the line's pixels, a
\* pixel never crossing from one word into the next.
IsLineLength(h) ==
    LET ppw == word_width \div bpp IN
    \E words \in 0 .. dim.width :
        /\ words * ppw >= dim.width
        /\ words = 0 \/ (words - 1) * ppw < dim.width
        /\ h = words * word_width

\* A pixel fits into a word and the line, in whole words, into 16 bits.
Representable ==
    /\ bpp \in 1 .. word_width
    /\ dim.width <= ((2^16 - 1) \div word_width) * (word_width \div bpp)

\* After every call that returns, the line length belongs to the dimensions, the pixel
\* size and the word width the object then reports: also after a call that threw in
\* the middle.
LineLength == outcome = "returned" /\ Representable => IsLineLength(hsize)
=============================================================================
