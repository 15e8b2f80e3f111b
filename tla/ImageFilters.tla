---------------------------- MODULE ImageFilters ----------------------------
(***************************************************************************)
(* What the image worker computes                                          *)
(* (image-processor/internal/handler/image.go): nearest-neighbour resizing *)
(* and the filters, one after another.  An image is a function from its    *)
(* points to colours of three levels; images are opaque.  RGBA() returns a *)
(* level as level * 257, sixteen bits.                                     *)
(*                                                                         *)
(* Products of levels and decimal factors are computed exactly here and in *)
(* floating point there, and are truncated to eight bits (uint8) in both.  *)
(***************************************************************************)
EXTENDS Integers, Sequences, FiniteSets, Functions

CONSTANTS
    Sizes,          \* <<width, height>> of images, before and after resizing
    Colours,        \* of the pixels of a source image
    MaxFilters      \* bound: filters of one request

ASSUME ImagesAssumption ==
    /\ \A s \in Sizes : s \in (Nat \ {0}) \X (Nat \ {0})
    /\ Colours \subseteq [1 .. 3 -> 0 .. 255]
    /\ MaxFilters \in Nat

Channels == 1 .. 3      \* red, green, blue
Filters == {"grayscale", "sepia", "contrast", "blur", "sharpen"}
Points(size) == (0 .. size[1] - 1) \X (0 .. size[2] - 1)

NoSize == <<0, 0>>

VARIABLES
    size,       \* of the image
    img,        \* [Points(size) -> [Channels -> level]]
    stage,      \* "requested", "decoded", or "resized" and being filtered
    applied     \* how many filters have been applied

imageVars == <<size, img, stage, applied>>

Byte(n) == n % 256      \* uint8
Wide(level) == level * 257

clampUint8(n) == IF n < 0 THEN 0 ELSE IF n > 255 THEN 255 ELSE Byte(n)

Smaller(m, n) == IF m < n THEN m ELSE n
Larger(m, n) == IF m > n THEN m ELSE n
Weighted(weights, colour) ==
    weights[1] * Wide(colour[1]) + weights[2] * Wide(colour[2])
        + weights[3] * Wide(colour[3])

\* The point of the source that a point of the resized image shows.
Nearest(from, to, p) ==
    [d \in 1 .. 2 |-> Smaller((p[d] * from[d]) \div to[d], from[d] - 1)]

resizeImage(from, src, to) == [p \in Points(to) |-> src[Nearest(from, to, p)]]

\* BT.601, over 256.
applyGrayscale(colour) ==
    [c \in Channels |->
        Byte(Weighted(<<299, 587, 114>>, colour) \div (1000 * 256))]

SepiaWeights == << <<393, 769, 189>>, <<349, 686, 168>>, <<272, 534, 131>> >>

applySepia(colour) ==
    [c \in Channels |->
        Byte(Smaller(255, Weighted(SepiaWeights[c], colour) \div (1000 * 256)))]

\* factor 1.3
applyContrast(colour) ==
    [c \in Channels |->
        clampUint8((13 * (colour[c] - 128) + 1280) \div 10)]

\* The sum over the 3 x 3 box around p: a point outside the image adds nothing.
Inside(f, p) == IF p \in Points(size) THEN f[p] ELSE 0
BoxRow(f, p, dy) ==
    Inside(f, <<p[1] - 1, p[2] + dy>>) + Inside(f, <<p[1], p[2] + dy>>)
        + Inside(f, <<p[1] + 1, p[2] + dy>>)
BoxSum(f, p) == BoxRow(f, p, -1) + BoxRow(f, p, 0) + BoxRow(f, p, 1)

\* Mutant: the corners count too, as black.
CountAll(p) == 9

CountInside(p) == BoxSum([q \in Points(size) |-> 1], p)

applyBoxBlur(p) ==
    [c \in Channels |->
        Byte(BoxSum([q \in Points(size) |-> img[q][c]], p) \div CountInside(p))]

\* A point outside is moved to the border.
Edge(p) == [d \in 1 .. 2 |-> Larger(0, Smaller(p[d], size[d] - 1))]

\* Centre times five less the four neighbours.
applySharpen(p) ==
    [c \in Channels |->
        clampUint8(5 * img[p][c]
                   - img[Edge(<<p[1] - 1, p[2]>>)][c]
                   - img[Edge(<<p[1] + 1, p[2]>>)][c]
                   - img[Edge(<<p[1], p[2] - 1>>)][c]
                   - img[Edge(<<p[1], p[2] + 1>>)][c])]

FilteredAt(filter, p) ==
    CASE filter = "grayscale" -> applyGrayscale(img[p])
      [] filter = "sepia" -> applySepia(img[p])
      [] filter = "contrast" -> applyContrast(img[p])
      [] filter = "blur" -> applyBoxBlur(p)
      [] filter = "sharpen" -> applySharpen(p)

Filtered(filter) == [p \in Points(size) |-> FilteredAt(filter, p)]

\* The gradient that stands in for an image that cannot be downloaded.
generateTestImage(of) ==
    [p \in Points(of) |-> <<Byte((p[1] * 255) \div of[1]),
                            Byte((p[2] * 255) \div of[2]), 128>>]

FilterInit ==
    /\ size = NoSize
    /\ img = <<>>
    /\ stage = "requested"
    /\ applied = 0

\* downloadImage returns an image, or an error.
Download ==
    /\ stage = "requested"
    /\ size' \in Sizes
    /\ img' \in [Points(size') -> Colours] \cup {generateTestImage(size')}
    /\ stage' = "decoded"
    /\ UNCHANGED applied

Resize ==
    /\ stage = "decoded"
    /\ size' \in Sizes
    /\ img' = resizeImage(size, img, size')
    /\ stage' = "resized"
    /\ UNCHANGED applied

\* One turn of the loop of applyFilters.
Apply(filter) ==
    /\ stage = "resized" /\ applied < MaxFilters
    /\ img' = Filtered(filter)
    /\ applied' = applied + 1
    /\ UNCHANGED <<size, stage>>

FilterNext == Download \/ Resize \/ \E filter \in Filters : Apply(filter)

FilterSpec == FilterInit /\ [][FilterNext]_imageVars

-----------------------------------------------------------------------------
(* Properties *)

FilterTypeOK ==
    /\ size \in Sizes \cup {NoSize}
    /\ DOMAIN img = Points(size)
    /\ \A p \in Points(size) : img[p] \in [Channels -> 0 .. 255]

\* Levels rise or stay along a row or a column.
Rises(of, image, d) ==
    \A p, q \in Points(of) :
        p[d] <= q[d] /\ p[3 - d] = q[3 - d] =>
            \A c \in Channels : image[p][c] <= image[q][c]

Rising(of, image) == {d \in 1 .. 2 : Rises(of, image, d)}

Constant(f) == Cardinality(Range(f)) = 1
Grey(image) == \A p \in DOMAIN image : Constant(image[p])

\* A resized gradient is a gradient, without a step back at the last row, and
\* an enlarged image shows every pixel, a reduced one none twice.
ShownInOrder ==
    stage = "decoded" /\ stage' # stage =>
        /\ Rising(size, img) \subseteq Rising(size', img')
        /\ (\A d \in 1 .. 2 : size'[d] >= size[d]) => Range(img) = Range(img')
        /\ (\A d \in 1 .. 2 : size'[d] <= size[d]) /\ IsInjective(img) =>
              IsInjective(img')

\* No filter shows the border of an image of one colour.
NoFrame ==
    Constant(img) =>
        /\ applied' # applied => Constant(img')
        /\ Apply("blur") \/ Apply("sharpen") => img' = img

\* Of grey levels the brighter one stays the brighter: none passes 255.
NoOverflow ==
    /\ Grey(img) => (Apply("grayscale") => img' = img)
    /\ (Grey(img) /\ (Apply("sepia") \/ Apply("blur"))) \/ Apply("contrast") =>
          Rising(size, img) \subseteq Rising(size, img')

(* The borders and the eight bits do not show.  Resizing keeps gradients, to
   the last row and column, shows every pixel when it enlarges and none twice
   when it reduces.  Filters keep an image of one colour at one colour, to
   the border, and blurring and sharpening do not change it at all.  Sepia,
   contrast and blurring do not make the brighter of two levels the darker
   one, and a grey image is its own grayscale. *)
NoArtefacts == [][ShownInOrder /\ NoFrame /\ NoOverflow]_imageVars

=============================================================================
