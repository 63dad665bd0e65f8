\* Every way in which a failing call can leave something behind.
SPECIFICATION Spec
CONSTANTS
  i1 = i1
  i2 = i2
  b1 = b1
  Items = {i1}
  Tabs = {t1}
  Blobs = {b1}
  Refs <- MCRefs
  Faults = {"clean", "torn", "whole", "short", "renamed", "undurable"}
  MaxSeals = 4
PROPERTY DamageStays
