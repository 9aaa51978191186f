--------------------------- MODULE MCGuestMemory ---------------------------
\* GuestMemory with pages of two bytes and an arena of four pages.
EXTENDS GuestMemory

\* Empty, part of a page, whole pages, whole pages and a part.
MCLens == {0, 1, 3, 4, 5}

\* A query, below the heap, inside of it, at and above every stack pointer.
MCBrkArgs == {0, 1, 3, 9}
=============================================================================
