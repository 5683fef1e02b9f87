\* The first start, with no file in /tmp.
SPECIFICATION LinkSpec
CONSTANT Capacity = 1
PROPERTIES StartedLinks
